---- MODULE Spec2Model ----
(***************************************************************************)
(* Round Table (src/roundtable.js): the sync engine, the optimistic write  *)
(* coordinator, the debounced reaction writes and the reaction aggregator, *)
(* as state machines over one browser client's `state` object and the      *)
(* remote content store it talks to.                                        *)
(***************************************************************************)
EXTENDS Integers, Sequences, FiniteSets, TLC

\* ------------------------------------------------------------------ bounds
\* revisions the store hands out in one run
MaxVer == 3
\* records in a list handed to the aggregator
MaxLen == 3
MaxCalls == 4
MaxText == 2
MaxRating == 10
MaxEdits == 1
\* reaction clicks in one run
MaxToggles == 3
\* write operations (saves, reaction writes) the clients start in one run
MaxOps == 2
\* sync-cycle bodies the event loop can hold at once (the guard keeps it at 1)
MaxCycles == 2
\* the count of throttled cycles in a row saturates here
ThrottleRunCap == 5

\* ------------------------------------------------------- program constants
POLL_INTERVAL_MS == 10000
MinPollMs == 2000
BackoffFloorMs == 5000
BackoffCeilMs == 60000

\* ------------------------------------------------------------------- world
\* One team, one session; the record file of writer w is "<team> -- w -- <session>.txt".
Writers == {"A", "B"}
Me == "A"
DirOrder == <<"A", "B">>
Emojis == {"thumb", "check", "heart"}
Flags == Writers \X Emojis
\* the reaction buttons the runs press
ToggleFlags == {<<"B", "thumb">>}
\* a record body: the human-authored fields (upd), and the REACTIONS_B64 line if it has one
NoBody == [upd |-> 0, hasRx |-> FALSE, rx |-> {}]
Bodies == [upd : {1, 2}, hasRx : {FALSE}, rx : {{}}] \cup
          [upd : {1, 2}, hasRx : {TRUE}, rx : SUBSET ToggleFlags]
Absent == [ver |-> 0, body |-> NoBody]

\* HTTP answers other than success: `${status} ...` with or without the words "rate limit"
\* and with or without the letters "sha"
Errors == { [status |-> 403, rl |-> TRUE, sha |-> FALSE],
            [status |-> 429, rl |-> FALSE, sha |-> FALSE],
            [status |-> 500, rl |-> FALSE, sha |-> FALSE] }
NoError == [status |-> 0, rl |-> FALSE, sha |-> FALSE]
OK == [status |-> 200, rl |-> FALSE, sha |-> FALSE]
Responses == {OK} \cup Errors

NoReg == "noreg"
Passphrases == {"", "pw"}
PassInputs == {"", "pw", "bad"}
PollIntervals == {1000, POLL_INTERVAL_MS}
Slots == 1 .. MaxCycles

Max(a, b) == IF a >= b THEN a ELSE b
Min(a, b) == IF a <= b THEN a ELSE b

VARIABLES
  store,            \* remote record files: writer -> [ver, body], ver 0 = absent
  nextVer,          \* next revision id the store hands out
  registry,         \* the team's registry entry in the store: NoReg or its passphrase
  pollIntervalMs,   \* cfg.POLL_INTERVAL_MS
  isSyncing, backoffMs, nextPollTimeout, lastApiError,
  currentUpdates, reactionTotals, myReactions, teamRegistry, teamLocked,
  cacheFiles,       \* state.cache.files: writer -> [etag, text]
  pollPending,      \* the timer state.nextPollTimeout names has not fired yet
  pollWait,         \* delay of the last scheduled poll
  liveStatus,       \* setLiveStatus label
  passEntered,      \* #teamPassInput value / cached passphrase
  cyc,              \* the refreshBoard bodies in flight: slot -> continuation
  reentered,        \* a refreshBoard call has found the cycle now in flight and returned
  lastOutcome,      \* the last finished cycle: how it ended and whether a request of it
                    \* was answered 403/429
  throttleRun,      \* throttled cycles in a row since backoffMs was last 0
  booted,           \* init() has run
  wr,               \* per client: the write operation it runs on A's record file
  putLog,           \* the PUTs the store accepted on A's record file, in order
  disturbed,        \* a request was answered with a fault, or the file was deleted
  rxDebounceTimer,  \* state._rxDebounceTimer: 0 (null) or the id of the timer it names
  rxArmed,          \* the debounce timers set and neither cleared nor fired yet
  rxIssued,         \* debounce timers created so far
  resync,           \* pending setTimeout(refreshBoard, 400) timers
  clicks,           \* the reaction clicks so far: click t set timer t; flag, value, its write
  aggList,          \* a list of parsed records handed to aggregateReactions
  aggTotals,        \* what aggregateReactions returned for it
  aggSeen,          \* the results returned for the orders of the list tried so far
  saveStatus,       \* setSaveStatus message of the update form
  speaker,          \* state.speaker: [spoken, speakingNow, readyOrder]
  speakerCalls,     \* the speaker buttons clicked so far, in order
  grid,             \* the cards of #updatesGrid as renderUpdates last drew them
  codecIn,          \* a payload handed to buildContentVars
  codecText,        \* a record body: its lines, in order
  codecOut,         \* what parseContentVars returned for the body
  codecEdits        \* lines of the body removed or overwritten by hand so far

storeVars == <<store, nextVer, registry>>
pollVars == <<nextPollTimeout, pollPending, pollWait>>
pubVars == <<currentUpdates, reactionTotals, myReactions>>
vars == <<store, nextVer, registry, pollIntervalMs, isSyncing, backoffMs, nextPollTimeout,
          lastApiError, currentUpdates, reactionTotals, myReactions, teamRegistry,
          teamLocked, cacheFiles, pollPending, pollWait, liveStatus, passEntered, cyc,
          reentered, lastOutcome, throttleRun, booted, wr, putLog, disturbed,
          rxDebounceTimer, rxArmed, rxIssued, resync, clicks, aggList, aggTotals, aggSeen,
          saveStatus, speaker, speakerCalls, grid, codecIn, codecText, codecOut, codecEdits>>
writeVars == <<wr, putLog, disturbed>>
rxVars == <<rxDebounceTimer, rxArmed, rxIssued, resync, clicks>>
aggVars == <<aggList, aggTotals, aggSeen>>
saveVars == <<saveStatus>>
speakerVars == <<speaker, speakerCalls, grid>>
codecVars == <<codecIn, codecText, codecOut, codecEdits>>
otherVars == <<writeVars, rxVars, aggVars, saveVars, speakerVars, codecVars>>
clientVars == <<pollIntervalMs, isSyncing, backoffMs, nextPollTimeout, lastApiError,
                currentUpdates, reactionTotals, myReactions, teamRegistry, teamLocked,
                cacheFiles, pollPending, pollWait, liveStatus, passEntered, cyc, reentered,
                lastOutcome, throttleRun, booted>>

\* ------------------------------------------------------------ pure helpers
NoCycle == [pc |-> "none", list |-> <<>>, queue |-> <<>>, parsed |-> <<>>,
            out |-> "none", thr |-> FALSE, b0 |-> 0]
NoOutcome == [out |-> "none", thr |-> FALSE]
E404 == [status |-> 404, rl |-> FALSE, sha |-> FALSE]
ZeroTotals == [f \in Flags |-> 0]
EmptyCache == [etag |-> 0, text |-> NoBody]

RECURSIVE SeqFilter(_, _)
SeqFilter(s, keep) ==
  IF s = <<>> THEN <<>>
  ELSE IF Head(s) \in keep THEN <<Head(s)>> \o SeqFilter(Tail(s), keep)
       ELSE SeqFilter(Tail(s), keep)

\* parseContentVars on a record body: a body without REACTIONS_B64 gets empty reactions
parseContentVars(w, body) ==
  [name |-> w, upd |-> body.upd, rx |-> IF body.hasRx THEN body.rx ELSE {}]

\* aggregateReactions: one pass over the list, +1 per record for each flag it holds
RECURSIVE AggregateInto(_, _)
AggregateInto(totals, parsedList) ==
  IF parsedList = <<>> THEN totals
  ELSE LET u == Head(parsedList)
       IN AggregateInto([f \in Flags |-> IF f \in u.rx THEN totals[f] + 1 ELSE totals[f]],
                        Tail(parsedList))

\* an aggregator that marks a flag as soon as one record holds it
aggregateReactionsFlagged(parsedList) ==
  [f \in Flags |-> IF \E i \in 1 .. Len(parsedList) : f \in parsedList[i].rx THEN 1 ELSE 0]

\* `const totals = new Map(); for (const u of parsedList) {...} return totals`
aggregateReactions(parsedList) == AggregateInto(ZeroTotals, parsedList)

\* /^403\b|^429\b|rate limit/i on the error message
IsRateLimited(e) == e.status \in {403, 429} \/ e.rl

\* the catch branch with the doubling replaced by a fixed increment
NextBackoffLinear(b, e) ==
  IF IsRateLimited(e) THEN Min(b + BackoffFloorMs, BackoffCeilMs) ELSE b

\* a catch branch that clears the backoff on an error that is not rate limiting
NextBackoffResets(b, e) ==
  IF IsRateLimited(e) THEN (IF b # 0 THEN Min(b * 2, BackoffCeilMs) ELSE BackoffFloorMs) ELSE 0

\* the catch branch of refreshBoard
NextBackoff(b, e) ==
  IF IsRateLimited(e) THEN (IF b # 0 THEN Min(b * 2, BackoffCeilMs) ELSE BackoffFloorMs) ELSE b

\* scheduleNextPoll: Math.max(2000, Number(cfg.POLL_INTERVAL_MS)||10000) + backoff
PollDelay(interval, b) ==
  Max(MinPollMs, IF interval = 0 THEN POLL_INTERVAL_MS ELSE interval) + b

\* refreshBoard without its re-entrancy guard
CanStartSyncUnguarded == TRUE

\* `if (state.isSyncing) return;`
CanStartSync == ~isSyncing

\* ------------------------------------------------------------- the store
\* readFileContent answered for a file at revision ver with body b, the cache entry of
\* the path being prev: 304 returns prev.text, 200 returns the decoded content
readFileContent(prev, ver, b) == IF prev.etag = ver THEN prev.text ELSE b

\* a 200 branch that stores the new ETag and keeps the text of the old entry
cacheAfterReadTagOnly(prev, ver, b) ==
  IF prev.etag = ver THEN prev ELSE [etag |-> ver, text |-> prev.text]

\* state.cache.files[path] after that answer: untouched on 304, etag and text replaced
\* together on 200
cacheAfterRead(prev, ver, b) ==
  IF prev.etag = ver THEN prev ELSE [etag |-> ver, text |-> b]

Exists(w) == store[w].ver # 0
\* the directory listing, filtered to the team's .txt files of the session
DirListing == SeqFilter(DirOrder, {w \in Writers : Exists(w)})
IsThrottle(r) == r.status \in {403, 429}


\* ------------------------------------------------- optimistic write coordinator
\* Two clients (two tabs or devices of writer A) write A's record file.
Clients == {1, 2}
Conflict409 == [status |-> 409, rl |-> FALSE, sha |-> FALSE]
Conflict422 == [status |-> 422, rl |-> FALSE, sha |-> TRUE]
Conflicts == {Conflict409, Conflict422}
\* what a PUT or a version fetch can be answered with when the store is unwilling
Faults == { [status |-> 500, rl |-> FALSE, sha |-> FALSE] }
\* a refused PUT whose message `${status} ${statusText}: ${text}` holds the characters
\* "sha" or "422" (a name, an id or an address in the response text)
Refusals == { [status |-> 403, rl |-> FALSE, sha |-> TRUE] }
NotFetched == 0 - 1

\* one writeFileOverwriteStrict call: where it stands, the body it writes, the sha of its
\* next PUT, the version its re-fetch saw, its requests so far, the error of its first
\* PUT, and how it ended
NoWf == [pc |-> "none", body |-> NoBody, sha |-> 0, seen2 |-> NotFetched, fetches |-> 0,
         puts |-> 0, first |-> NoError, res |-> "none", err |-> NoError]
\* `let meta = await ghGetContentsMeta(cfg, filePath)`: the first version fetch is issued
WfStart(body) == [NoWf EXCEPT !.pc = "meta1", !.body = body, !.fetches = 1]
WfThrow(wf, e) == [wf EXCEPT !.pc = "done", !.res = "err", !.err = e]

\* the catch block's first test: e.status === 422 || /422/ || /"sha" wasn't supplied|sha/i
Retry422(e) == e.status = 422 \/ e.sha
\* a catch block without the 409 branch
Retry409Never(e) == FALSE
\* the catch block's second test
Retry409(e) == e.status = 409

\* ghGetContentsMeta answers r while the path holds version ver (0: 404, returned as null)
WfOnMeta(wf, r, ver) ==
  IF r # OK THEN WfThrow(wf, r)
  ELSE IF wf.pc = "meta1"
       THEN [wf EXCEPT !.pc = "put1", !.sha = ver, !.puts = 1]
  ELSE IF Retry422(wf.first)
       THEN [wf EXCEPT !.pc = "put2", !.sha = ver, !.seen2 = ver, !.puts = @ + 1]
  ELSE IF ver # 0
       THEN [wf EXCEPT !.pc = "put2", !.sha = ver, !.seen2 = ver, !.puts = @ + 1]
  ELSE [WfThrow(wf, wf.first) EXCEPT !.seen2 = ver]

\* the PUT answers r (OK: 200/201)
WfOnPut(wf, r) ==
  IF r = OK THEN [wf EXCEPT !.pc = "done", !.res = "ok"]
  ELSE IF wf.pc = "put1" /\ (Retry422(r) \/ Retry409(r))
       THEN [wf EXCEPT !.pc = "meta2", !.first = r, !.fetches = @ + 1]
  ELSE IF wf.pc = "put1" THEN [WfThrow(wf, r) EXCEPT !.first = r]
  ELSE WfThrow(wf, r)

\* the store's side of a PUT carrying sha g while the path holds version ver: it lands
\* only when g names the current version (no sha: only when the path is absent)
PutAnswers(g, ver) == IF g = ver THEN {OK} \cup Errors \cup Refusals
                      ELSE Conflicts \cup Errors \cup Refusals
MetaAnswers == {OK} \cup Faults

\* a client's operation on the file: saveMyUpdate ("save") or upsertMyReactions ("rx")
IdleOp == [op |-> "idle", pc |-> "idle", n |-> 0, wf |-> NoWf, text |-> NoBody, base |-> NotFetched,
           sawAbsent |-> FALSE, result |-> "none", err |-> NoError, cache |-> EmptyCache,
           refresh |-> "none"]
RECURSIVE SumOps(_, _)
SumOps(w, cs) == IF cs = {} THEN 0
                 ELSE LET c == CHOOSE x \in cs : TRUE IN w[c].n + SumOps(w, cs \ {c})
\* operations started so far
OpsStarted == SumOps(wr, Clients)
\* the reactions client c has toggled on
MyRx(c) == IF c = 1 THEN ToggleFlags ELSE {}
\* buildContentVars of the form fields: no REACTIONS_B64 line
SaveBody(c) == [upd |-> c, hasRx |-> FALSE, rx |-> {}]
\* the init payload of ensureMyFileExists
InitFileBody == [upd |-> 0, hasRx |-> FALSE, rx |-> {}]
\* upsertMyReactions: replace or append the REACTIONS_B64 line of the text read
WithReactions(text, rx) == [upd |-> text.upd, hasRx |-> TRUE, rx |-> rx]

\* `let state = {...}` before init() has run
FreshTab ==
  /\ isSyncing = FALSE /\ backoffMs = 0 /\ nextPollTimeout = FALSE
  /\ lastApiError = NoError
  /\ currentUpdates = <<>> /\ reactionTotals = ZeroTotals /\ myReactions = {}
  /\ teamRegistry = NoReg /\ teamLocked = FALSE
  /\ cacheFiles = [w \in Writers |-> EmptyCache]
  /\ pollPending = FALSE /\ pollWait = 0
  /\ liveStatus = "Idle"
  /\ passEntered = ""
  /\ cyc = [s \in Slots |-> NoCycle]
  /\ reentered = FALSE
  /\ lastOutcome = NoOutcome
  /\ throttleRun = 0
  /\ booted = FALSE

\* no reaction toggled yet, nothing handed to the aggregator
NoRx == rxDebounceTimer = 0 /\ rxArmed = {} /\ rxIssued = 0 /\ resync = 0 /\ clicks = <<>>
NoAgg == aggList = <<>> /\ aggTotals = ZeroTotals /\ aggSeen = {}
\* the update form before a save: no status message
NoSave == saveStatus = ""
\* loadSpeakerState with nothing stored: { spoken: [], speakingNow: null, readyOrder: [] }
NoOne == ""
NoSpeaker == speaker = [spoken |-> <<>>, speakingNow |-> NoOne, readyOrder |-> <<>>]
             /\ speakerCalls = <<>> /\ grid = <<>>
\* the null of a parsed feeling / productivity
Unset == 0 - 1
\* `const out = {...}` at the top of parseContentVars
EmptyOut == [team |-> <<>>, name |-> <<>>, session |-> <<>>, feeling |-> Unset,
             productivity |-> Unset, update |-> <<>>, updated_at |-> <<>>,
             reactions |-> "default", threw |-> FALSE]
NoPayload == [team |-> <<>>, name |-> <<>>, session |-> <<>>, feeling |-> 0,
              productivity |-> 0, update |-> <<>>, timestamp |-> <<>>]
\* nothing handed to the codec
\* parseContentVars has not been called
NoOut == [none |-> TRUE]
NoCodec == codecIn = NoPayload /\ codecText = <<>> /\ codecOut = NoOut /\ codecEdits = 0

\* the records the session starts with: A has reacted to B's update
InitBody(w) ==
  IF w = Me THEN [upd |-> 1, hasRx |-> TRUE, rx |-> ToggleFlags]
  ELSE [upd |-> 1, hasRx |-> FALSE, rx |-> {}]

Init ==
  /\ store = [w \in Writers |-> [ver |-> 1, body |-> InitBody(w)]]
  /\ nextVer = 2
  /\ registry \in {NoReg, "pw"}
  /\ pollIntervalMs \in PollIntervals
  /\ FreshTab
  /\ wr = [c \in Clients |-> IdleOp]
  /\ putLog = <<>>
  /\ disturbed = FALSE
  /\ NoRx
  /\ NoAgg
  /\ NoSave
  /\ NoSpeaker
  /\ NoCodec

\* ------------------------------------------------------------ sync engine
\* refreshBoard up to its first await: the re-entrancy guard, then the directory request
refreshBoard(trig) ==
  /\ reentered' = (reentered \/ ~CanStartSync)
  /\ IF CanStartSync
     THEN /\ \E s \in Slots :
               /\ cyc[s].pc = "none"
               /\ \A r \in Slots : r < s => cyc[r].pc # "none"
               /\ cyc' = [cyc EXCEPT ![s] = [NoCycle EXCEPT !.pc = "listDirectory",
                                                            !.b0 = backoffMs]]
          /\ isSyncing' = TRUE
          /\ liveStatus' = "Syncing"
     ELSE UNCHANGED <<cyc, isSyncing, liveStatus>>

\* scheduleNextPoll that clears the old timer and sets no new one
scheduleNextPollDropped(b) ==
  /\ pollPending' = FALSE
  /\ UNCHANGED <<pollWait, nextPollTimeout>>

\* scheduleNextPoll with the backoff the cycle leaves behind
scheduleNextPoll(b) ==
  /\ pollWait' = PollDelay(pollIntervalMs, b)
  /\ nextPollTimeout' = TRUE
  /\ pollPending' = TRUE

\* the finally block of refreshBoard
Finally(s, out, b, thr) ==
  /\ isSyncing' = FALSE
  /\ cyc' = [cyc EXCEPT ![s] = NoCycle]
  /\ scheduleNextPoll(b)
  /\ lastOutcome' = [out |-> out, thr |-> thr]
  /\ reentered' = FALSE

\* verifyPassForSelectedTeam against a registry map
verifyPassForSelectedTeam(reg, entered) ==
  reg = NoReg \/ reg = "" \/ (entered # "" /\ entered = reg)

\* the publication at the end of the try block
Publish(parsed) ==
  /\ currentUpdates' = parsed
  /\ reactionTotals' = aggregateReactions(parsed)
  /\ myReactions' = IF \E i \in 1 .. Len(parsed) : parsed[i].name = Me
                    THEN (CHOOSE u \in {parsed[i] : i \in 1 .. Len(parsed)} : u.name = Me).rx
                    ELSE {}
  /\ liveStatus' = "Updated"
  /\ backoffMs' = 0
  /\ throttleRun' = 0

\* a locked branch that leaves the published roster and totals on the board
LockedBranchKeepsRoster(s, c) ==
  /\ liveStatus' = "Locked"
  /\ backoffMs' = 0
  /\ throttleRun' = 0
  /\ cyc' = [cyc EXCEPT ![s] = [c EXCEPT !.pc = "populate", !.out = "Locked"]]
  /\ UNCHANGED pubVars

\* `if (!tOk) { state.currentUpdates = []; state.reactionTotals = new Map(); ... return; }`
LockedBranch(s, c) ==
  /\ currentUpdates' = <<>>
  /\ reactionTotals' = ZeroTotals
  /\ liveStatus' = "Locked"
  /\ backoffMs' = 0
  /\ throttleRun' = 0
  /\ cyc' = [cyc EXCEPT ![s] = [c EXCEPT !.pc = "populate", !.out = "Locked"]]
  /\ UNCHANGED myReactions

\* a gate evaluated on the registry map of the cycle before
AfterDiscoverStaleGate(s, c, reg) ==
  /\ teamRegistry' = reg
  /\ teamLocked' = ~verifyPassForSelectedTeam(teamRegistry, passEntered)
  /\ IF ~verifyPassForSelectedTeam(teamRegistry, passEntered)
     THEN LockedBranch(s, c)
     ELSE IF c.list = <<>>
     THEN /\ Publish(<<>>)
          /\ cyc' = [cyc EXCEPT ![s] = [c EXCEPT !.pc = "populate", !.out = "Updated"]]
     ELSE /\ cyc' = [cyc EXCEPT ![s] = [c EXCEPT !.pc = "readFileContent",
                                                 !.queue = c.list, !.parsed = <<>>]]
          /\ UNCHANGED <<pubVars, liveStatus, backoffMs, throttleRun>>

\* discoverTeamsFromGitHub has set state.teamRegistry; the gate, then the first record
\* request (or the publication of an empty roster), for the cycle record c of slot s
AfterDiscover(s, c, reg) ==
  /\ teamRegistry' = reg
  /\ teamLocked' = ~verifyPassForSelectedTeam(reg, passEntered)
  /\ IF ~verifyPassForSelectedTeam(reg, passEntered)
     THEN LockedBranch(s, c)
     ELSE IF c.list = <<>>
     THEN /\ Publish(<<>>)
          /\ cyc' = [cyc EXCEPT ![s] = [c EXCEPT !.pc = "populate", !.out = "Updated"]]
     ELSE /\ cyc' = [cyc EXCEPT ![s] = [c EXCEPT !.pc = "readFileContent",
                                                 !.queue = c.list, !.parsed = <<>>]]
          /\ UNCHANGED <<pubVars, liveStatus, backoffMs, throttleRun>>

\* listDirectory answers: an error is swallowed into the empty list
OnListDirectory(s, r) ==
  /\ UNCHANGED otherVars
  /\ cyc[s].pc = "listDirectory"
  /\ cyc' = [cyc EXCEPT ![s] = [@ EXCEPT !.pc = "listRegistry",
                                         !.list = IF r = OK THEN DirListing ELSE <<>>,
                                         !.thr = @ \/ IsThrottle(r)]]
  /\ UNCHANGED <<storeVars, pollIntervalMs, isSyncing, backoffMs, pollVars, lastApiError,
                 pubVars, teamRegistry, teamLocked, cacheFiles, liveStatus, passEntered,
                 reentered, lastOutcome, throttleRun, booted>>

\* listRegistry answers: an error is swallowed into the empty list
OnListRegistry(s, r) ==
  /\ UNCHANGED otherVars
  /\ cyc[s].pc = "listRegistry"
  /\ LET c == [cyc[s] EXCEPT !.thr = @ \/ IsThrottle(r)]
     IN IF r = OK /\ registry # NoReg
        THEN /\ cyc' = [cyc EXCEPT ![s] = [c EXCEPT !.pc = "readJsonFile"]]
             /\ UNCHANGED <<teamRegistry, teamLocked, pubVars, liveStatus, backoffMs,
                            throttleRun>>
        ELSE AfterDiscover(s, c, NoReg)
  /\ UNCHANGED <<storeVars, pollIntervalMs, isSyncing, pollVars, lastApiError,
                 cacheFiles, passEntered, reentered, lastOutcome, booted>>

\* readJsonFile of the team's registry entry answers: an error skips the entry
OnReadJsonFile(s, r) ==
  /\ UNCHANGED otherVars
  /\ cyc[s].pc = "readJsonFile"
  /\ LET c == [cyc[s] EXCEPT !.thr = @ \/ IsThrottle(r)]
     IN AfterDiscover(s, c, IF r = OK /\ registry # NoReg THEN registry ELSE NoReg)
  /\ UNCHANGED <<storeVars, pollIntervalMs, isSyncing, pollVars, lastApiError,
                 cacheFiles, passEntered, reentered, lastOutcome, booted>>

\* a record fetch whose failure leaves the records parsed so far on the board
OnReadFileContentPartial(s, r) ==
  /\ UNCHANGED otherVars
  /\ cyc[s].pc = "readFileContent"
  /\ LET c == [cyc[s] EXCEPT !.thr = @ \/ IsThrottle(r)]
         w == Head(c.queue)
         e == IF r # OK THEN r ELSE E404
     IN IF r = OK /\ Exists(w)
        THEN LET text == readFileContent(cacheFiles[w], store[w].ver, store[w].body)
                 parsed == Append(c.parsed, parseContentVars(w, text))
             IN /\ cacheFiles' = [cacheFiles EXCEPT ![w] =
                                    cacheAfterRead(@, store[w].ver, store[w].body)]
                /\ IF Tail(c.queue) = <<>>
                   THEN /\ Publish(parsed)
                        /\ cyc' = [cyc EXCEPT ![s] = [c EXCEPT !.pc = "populate",
                                           !.queue = <<>>, !.parsed = parsed,
                                           !.out = "Updated"]]
                   ELSE /\ cyc' = [cyc EXCEPT ![s] = [c EXCEPT !.queue = Tail(c.queue),
                                                               !.parsed = parsed]]
                        /\ UNCHANGED <<pubVars, liveStatus, backoffMs, throttleRun>>
                /\ UNCHANGED <<isSyncing, pollVars, lastApiError, lastOutcome, reentered>>
        ELSE /\ lastApiError' = e
             /\ liveStatus' = "Sync error"
             /\ backoffMs' = NextBackoff(backoffMs, e)
             /\ throttleRun' = IF IsRateLimited(e)
                               THEN Min(throttleRun + 1, ThrottleRunCap) ELSE throttleRun
             /\ Finally(s, IF IsRateLimited(e) THEN "Throttled" ELSE "Sync error",
                        NextBackoff(backoffMs, e), c.thr)
             /\ currentUpdates' = c.parsed
             /\ reactionTotals' = aggregateReactions(c.parsed)
             /\ UNCHANGED <<myReactions, cacheFiles>>
  /\ UNCHANGED <<storeVars, pollIntervalMs, teamRegistry, teamLocked, passEntered,
                 booted>>

\* readFileContent of the next record answers
OnReadFileContent(s, r) ==
  /\ UNCHANGED otherVars
  /\ cyc[s].pc = "readFileContent"
  /\ LET c == [cyc[s] EXCEPT !.thr = @ \/ IsThrottle(r)]
         w == Head(c.queue)
         e == IF r # OK THEN r ELSE E404
     IN IF r = OK /\ Exists(w)
        THEN LET text == readFileContent(cacheFiles[w], store[w].ver, store[w].body)
                 parsed == Append(c.parsed, parseContentVars(w, text))
             IN /\ cacheFiles' = [cacheFiles EXCEPT ![w] =
                                    cacheAfterRead(@, store[w].ver, store[w].body)]
                /\ IF Tail(c.queue) = <<>>
                   THEN /\ Publish(parsed)
                        /\ cyc' = [cyc EXCEPT ![s] = [c EXCEPT !.pc = "populate",
                                           !.queue = <<>>, !.parsed = parsed,
                                           !.out = "Updated"]]
                   ELSE /\ cyc' = [cyc EXCEPT ![s] = [c EXCEPT !.queue = Tail(c.queue),
                                                               !.parsed = parsed]]
                        /\ UNCHANGED <<pubVars, liveStatus, backoffMs, throttleRun>>
                /\ UNCHANGED <<isSyncing, pollVars, lastApiError, lastOutcome, reentered>>
        ELSE /\ lastApiError' = e
             /\ liveStatus' = "Sync error"
             /\ backoffMs' = NextBackoff(backoffMs, e)
             /\ throttleRun' = IF IsRateLimited(e)
                               THEN Min(throttleRun + 1, ThrottleRunCap) ELSE throttleRun
             /\ Finally(s, IF IsRateLimited(e) THEN "Throttled" ELSE "Sync error",
                        NextBackoff(backoffMs, e), c.thr)
             /\ UNCHANGED <<pubVars, cacheFiles>>
  /\ UNCHANGED <<storeVars, pollIntervalMs, teamRegistry, teamLocked, passEntered,
                 booted>>

\* the trailing populateDeleteSessionSelect listing answers, then the finally block
OnPopulate(s, r) ==
  /\ UNCHANGED otherVars
  /\ cyc[s].pc = "populate"
  /\ Finally(s, cyc[s].out, backoffMs, cyc[s].thr \/ IsThrottle(r))
  /\ UNCHANGED <<storeVars, pollIntervalMs, backoffMs, lastApiError, pubVars,
                 teamRegistry, teamLocked, cacheFiles, liveStatus, passEntered,
                 throttleRun, booted>>

\* ---------------------------------------------------------------- triggers
restOfSync == <<storeVars, pollIntervalMs, backoffMs, lastApiError, pubVars, teamRegistry,
                teamLocked, cacheFiles, passEntered, lastOutcome, throttleRun>>

\* init(): hooks are installed, then the first refreshBoard
Boot ==
  /\ UNCHANGED otherVars
  /\ ~booted
  /\ booted' = TRUE
  /\ refreshBoard("init")
  /\ UNCHANGED <<restOfSync, pollVars>>

\* the poll timer fires: setTimeout(refreshBoard, wait)
PollFire ==
  /\ UNCHANGED otherVars
  /\ pollPending
  /\ pollPending' = FALSE
  /\ refreshBoard("poll")
  /\ UNCHANGED <<restOfSync, nextPollTimeout, pollWait, booted>>

\* #manualRefreshBtn click
ManualRefresh ==
  /\ UNCHANGED otherVars
  /\ booted
  /\ refreshBoard("manual")
  /\ UNCHANGED <<restOfSync, pollVars, booted>>

\* #teamPassInput input: store the passphrase, verify, refresh when it verifies
PassInput(v) ==
  /\ UNCHANGED otherVars
  /\ booted
  /\ passEntered' = v
  /\ teamLocked' = ~verifyPassForSelectedTeam(teamRegistry, v)
  /\ IF verifyPassForSelectedTeam(teamRegistry, v)
     THEN refreshBoard("pass")
     ELSE UNCHANGED <<cyc, isSyncing, liveStatus, reentered>>
  /\ UNCHANGED <<storeVars, pollIntervalMs, backoffMs, lastApiError, pubVars, teamRegistry,
                 cacheFiles, lastOutcome, throttleRun, pollVars, booted>>

\* another client's (or another tab's) write lands in the store
StoreChange(w, b) ==
  /\ UNCHANGED otherVars
  /\ nextVer <= MaxVer
  /\ store' = [store EXCEPT ![w] = [ver |-> nextVer, body |-> b]]
  /\ nextVer' = nextVer + 1
  /\ UNCHANGED <<registry, pollIntervalMs, isSyncing, backoffMs, pollVars, lastApiError,
                 pubVars, teamRegistry, teamLocked, cacheFiles, liveStatus, passEntered,
                 cyc, reentered, lastOutcome, throttleRun, booted>>

SyncStep ==
  \E s \in Slots, r \in Responses :
    \/ OnListDirectory(s, r)
    \/ OnListRegistry(s, r)
    \/ OnReadJsonFile(s, r)
    \/ OnReadFileContent(s, r)
    \/ OnPopulate(s, r)

Next ==
  \/ Boot
  \/ PollFire
  \/ ManualRefresh
  \/ \E v \in PassInputs : PassInput(v)
  \/ SyncStep

Spec == Init /\ [][Next]_vars

\* ------------------------------------------------------ write coordinator steps
WriteFrame == UNCHANGED <<registry, clientVars, rxVars, aggVars, saveVars, speakerVars, codecVars>>
Fault(r) == r \in Faults \cup Refusals

\* where a client stands once its writeFileOverwriteStrict call has moved to wf
AfterWf(o, wf) ==
  IF wf.pc # "done" THEN [o EXCEPT !.wf = wf]
  ELSE IF wf.res = "err"
       THEN [o EXCEPT !.wf = wf, !.pc = "done", !.result = "failed", !.err = wf.err]
  ELSE IF o.pc = "initwf" THEN [o EXCEPT !.wf = wf, !.pc = "read"]
  ELSE [o EXCEPT !.wf = wf, !.pc = "done", !.result = "ok"]

\* upsertMyReactions is entered: ensureMyFileExists asks for the version of the file
upsertMyReactions(c) ==
  /\ wr[c].pc \in {"idle", "done"} /\ OpsStarted < MaxOps
  /\ wr' = [wr EXCEPT ![c] = [IdleOp EXCEPT !.op = "rx", !.pc = "ensure", !.n = wr[c].n + 1,
                                           !.cache = wr[c].cache]]
  /\ UNCHANGED <<store, nextVer, putLog, disturbed>>

\* ensureMyFileExists: the version fetch answers; an absent file is created first
ensureMyFileExists(c, r) ==
  /\ wr[c].pc = "ensure"
  /\ wr' = [wr EXCEPT ![c] =
              IF r # OK THEN [@ EXCEPT !.pc = "done", !.result = "failed", !.err = r]
              ELSE IF Exists(Me) THEN [@ EXCEPT !.pc = "read"]
              ELSE [@ EXCEPT !.pc = "initwf", !.wf = WfStart(InitFileBody)]]
  /\ disturbed' = (disturbed \/ Fault(r))
  /\ UNCHANGED <<store, nextVer, putLog>>

\* writeFileOverwriteStrict: a version fetch (the first, or the re-fetch) answers
WfMetaOp(c, r) ==
  LET o == [wr[c] EXCEPT !.sawAbsent = IF wr[c].wf.pc = "meta1"
                                       THEN (r = OK /\ ~Exists(Me)) ELSE @]
  IN AfterWf(o, WfOnMeta(wr[c].wf, r, store[Me].ver))

WfMeta(c, r) ==
  /\ wr[c].pc \in {"initwf", "wf"} /\ wr[c].wf.pc \in {"meta1", "meta2"}
  /\ wr' = [wr EXCEPT ![c] = WfMetaOp(c, r)]
  /\ disturbed' = (disturbed \/ Fault(r))
  /\ UNCHANGED <<store, nextVer, putLog>>

\* writeFileOverwriteStrict: a PUT (the first, or the retry) reaches the store and answers
WfPutOp(c, r) == AfterWf(wr[c], WfOnPut(wr[c].wf, r))

\* the store's side of the PUT of client c answered r: an accepted PUT is a new revision
StorePut(c, r) ==
  IF r = OK
  THEN /\ store' = [store EXCEPT ![Me] = [ver |-> nextVer, body |-> wr[c].wf.body]]
       /\ nextVer' = nextVer + 1
       /\ putLog' = Append(putLog, [by |-> c,
                                    kind |-> IF wr[c].pc = "initwf" THEN "init"
                                             ELSE wr[c].op,
                                    replaced |-> store[Me].ver, base |-> wr[c].base,
                                    try |-> wr[c].wf.puts, new |-> nextVer,
                                    body |-> wr[c].wf.body])
  ELSE UNCHANGED <<store, nextVer, putLog>>

WfPut(c, r) ==
  /\ wr[c].pc \in {"initwf", "wf"} /\ wr[c].wf.pc \in {"put1", "put2"}
  /\ r \in PutAnswers(wr[c].wf.sha, store[Me].ver)
  /\ wr' = [wr EXCEPT ![c] = WfPutOp(c, r)]
  /\ StorePut(c, r)
  /\ disturbed' = (disturbed \/ Fault(r))

\* upsertMyReactions: readFileContent, through the cache entry of the path, answers (a
\* failure leaves text = ''); the REACTIONS_B64 line is replaced by the client's flags
\* `mine` and writeFileOverwriteStrict starts
RxRead(c, r, cache, mine) ==
  /\ wr[c].pc = "read"
  /\ LET hit == r = OK /\ Exists(Me)
         text == IF ~hit THEN NoBody
                 ELSE readFileContent(cache, store[Me].ver, store[Me].body)
     IN wr' = [wr EXCEPT ![c] =
                 [@ EXCEPT !.pc = "wf", !.text = text,
                           !.base = IF hit THEN store[Me].ver ELSE NotFetched,
                           !.cache = IF hit
                                     THEN cacheAfterRead(cache, store[Me].ver, store[Me].body)
                                     ELSE cache,
                           !.wf = WfStart(WithReactions(text, mine))]]
  /\ disturbed' = (disturbed \/ Fault(r))
  /\ UNCHANGED <<store, nextVer, putLog>>

\* saveMyUpdate reaches `await writeFileOverwriteStrict(cfg, filePath, content, ...)`
saveMyUpdate(c) ==
  /\ wr[c].pc \in {"idle", "done"} /\ OpsStarted < MaxOps
  /\ wr' = [wr EXCEPT ![c] = [IdleOp EXCEPT !.op = "save", !.pc = "wf", !.n = wr[c].n + 1,
                                           !.wf = WfStart(SaveBody(c)),
                                           !.cache = wr[c].cache]]
  /\ UNCHANGED <<store, nextVer, putLog, disturbed>>

\* a client submits the update form
StartSave(c) == saveMyUpdate(c) /\ WriteFrame

\* a client's debounce callback starts its reaction write
StartRx(c) == upsertMyReactions(c) /\ WriteFrame
OnEnsureMeta(c, r) == ensureMyFileExists(c, r) /\ WriteFrame
OnWfMeta(c, r) == WfMeta(c, r) /\ WriteFrame
OnWfPut(c, r) == WfPut(c, r) /\ WriteFrame
\* each client reads through its own cache and writes its own flags
OnRxRead(c, r) == RxRead(c, r, wr[c].cache, MyRx(c)) /\ WriteFrame

\* deleteFile by an admin on another client removes the record
DeleteRecord ==
  /\ Exists(Me) /\ ~disturbed
  /\ store' = [store EXCEPT ![Me] = Absent]
  /\ disturbed' = TRUE
  /\ UNCHANGED <<nextVer, wr, putLog>>
  /\ WriteFrame

InitWrite ==
  /\ store \in {[w \in Writers |-> IF w = Me THEN Absent ELSE [ver |-> 1, body |-> InitBody(w)]],
                [w \in Writers |-> [ver |-> 1, body |-> InitBody(w)]]}
  /\ nextVer = 2
  /\ registry = NoReg
  /\ pollIntervalMs = POLL_INTERVAL_MS
  /\ FreshTab
  /\ wr = [c \in Clients |-> IdleOp]
  /\ putLog = <<>>
  /\ disturbed = FALSE
  /\ NoRx
  /\ NoAgg
  /\ NoSave
  /\ NoSpeaker
  /\ NoCodec

NextWrite ==
  \/ \E c \in Clients : StartSave(c)
  \/ \E c \in Clients : StartRx(c)
  \/ \E c \in Clients, r \in MetaAnswers : OnEnsureMeta(c, r)
  \/ \E c \in Clients, r \in MetaAnswers : OnWfMeta(c, r)
  \/ \E c \in Clients, r \in {OK} \cup Conflicts \cup Faults \cup Refusals : OnWfPut(c, r)
  \/ \E c \in Clients, r \in MetaAnswers : OnRxRead(c, r)
  \/ DeleteRecord

SpecWrite == InitWrite /\ [][NextWrite]_vars

\* ------------------------------------------------- reaction toggles of one tab
\* In this part the two entries of wr are the reaction writes the one tab has in flight.
RxFrame == UNCHANGED <<registry, pollIntervalMs, isSyncing, backoffMs, pollVars, pubVars,
                       teamRegistry, teamLocked, liveStatus, passEntered, cyc, reentered,
                       lastOutcome, throttleRun, booted, rxArmed, rxIssued, clicks, aggVars,
                       saveVars, speakerVars, codecVars>>

\* where the write of a click stands: its timer has not fired, or the entry of wr that
\* runs it, or that entry has since been taken by a later write
Unfired == 0
Over == 0 - 1

\* scheduleWriteMyReactions: clearTimeout of the timer the handle names, then a new timer
scheduleWriteMyReactions ==
  /\ rxArmed' = (rxArmed \ {rxDebounceTimer}) \cup {rxIssued + 1}
  /\ rxDebounceTimer' = rxIssued + 1
  /\ rxIssued' = rxIssued + 1
  /\ UNCHANGED resync

\* the click handler of a reaction button on the card of f[1], emoji f[2]
Toggle(f) ==
  /\ rxIssued < MaxToggles
  /\ \E i \in 1 .. Len(currentUpdates) : currentUpdates[i].name = f[1]
  /\ LET had == f \in myReactions
         mine == IF had THEN myReactions \ {f} ELSE myReactions \cup {f}
     IN /\ myReactions' = mine
        \* state.myReactions is the reactions object of the user's own published record
        /\ currentUpdates' = [i \in 1 .. Len(currentUpdates) |->
                                IF currentUpdates[i].name = Me
                                THEN [currentUpdates[i] EXCEPT !.rx = mine]
                                ELSE currentUpdates[i]]
        /\ reactionTotals' = [reactionTotals EXCEPT
                                ![f] = Max(0, @ + (IF had THEN 0 - 1 ELSE 1))]
        /\ clicks' = Append(clicks, [flag |-> f, on |-> ~had, write |-> Unfired])
  /\ scheduleWriteMyReactions
  /\ UNCHANGED <<storeVars, pollIntervalMs, isSyncing, backoffMs, pollVars, lastApiError,
                 teamRegistry, teamLocked, cacheFiles, liveStatus, passEntered, cyc,
                 reentered, lastOutcome, throttleRun, booted, writeVars, aggVars, saveVars,
                 speakerVars, codecVars>>

\* the debounce timer t fires: its callback enters upsertMyReactions
RxTimerFire(t) ==
  /\ t \in rxArmed
  /\ rxArmed' = rxArmed \ {t}
  /\ \E c \in Clients :
       /\ \A d \in Clients : d < c => wr[d].pc \notin {"idle", "done"}
       /\ upsertMyReactions(c)
       /\ clicks' = [i \in 1 .. Len(clicks) |->
                       IF i = t THEN [clicks[i] EXCEPT !.write = c]
                       ELSE IF clicks[i].write = c THEN [clicks[i] EXCEPT !.write = Over]
                       ELSE clicks[i]]
  /\ UNCHANGED <<registry, clientVars, rxDebounceTimer, rxIssued, resync, aggVars,
                 saveVars, speakerVars, codecVars>>

\* a callback whose finally block asks for the re-sync only when the write succeeded
debounceFinallySkipOnError(o) ==
  /\ lastApiError' = IF o.result = "failed" THEN o.err ELSE lastApiError
  /\ rxDebounceTimer' = 0
  /\ resync' = IF o.result = "failed" THEN resync ELSE resync + 1

\* catch (e) { recordApiError(e) } finally { _rxDebounceTimer = null; setTimeout(refreshBoard, 400) }
debounceFinally(o) ==
  /\ lastApiError' = IF o.result = "failed" THEN o.err ELSE lastApiError
  /\ rxDebounceTimer' = 0
  /\ resync' = resync + 1

\* the answer that ends upsertMyReactions runs the rest of the callback with it
debounceSettled(c) ==
  IF wr'[c].pc = "done" THEN debounceFinally(wr'[c])
  ELSE UNCHANGED <<lastApiError, rxDebounceTimer, resync>>

RxOnEnsureMeta(c, r) ==
  ensureMyFileExists(c, r) /\ debounceSettled(c) /\ UNCHANGED cacheFiles /\ RxFrame
RxOnWfMeta(c, r) ==
  WfMeta(c, r) /\ debounceSettled(c) /\ UNCHANGED cacheFiles /\ RxFrame
RxOnWfPut(c, r) ==
  WfPut(c, r) /\ debounceSettled(c) /\ UNCHANGED cacheFiles /\ RxFrame
RxOnRead(c, r) ==
  /\ RxRead(c, r, cacheFiles[Me], myReactions)
  /\ cacheFiles' = [cacheFiles EXCEPT ![Me] = wr'[c].cache]
  /\ debounceSettled(c)
  /\ RxFrame

\* a setTimeout(refreshBoard, 400) timer fires
ResyncFire ==
  /\ resync > 0
  /\ resync' = resync - 1
  /\ refreshBoard("rx")
  /\ UNCHANGED <<restOfSync, pollVars, booted, writeVars, rxDebounceTimer, rxArmed,
                 rxIssued, clicks, aggVars, saveVars, speakerVars, codecVars>>

\* a request of the cycle a re-sync timer started is answered (the team has no registry
\* entry, so the cycle reads none; cycles of the poll timer are the subject of Spec)
RxSyncStep ==
  \E s \in Slots, r \in MetaAnswers :
    \/ OnListDirectory(s, r)
    \/ OnListRegistry(s, r)
    \/ OnReadFileContent(s, r)
    \/ OnPopulate(s, r)

\* the tab after its first sync cycle has published both records
InitRx ==
  /\ store = [w \in Writers |-> [ver |-> 1, body |-> InitBody(w)]]
  /\ nextVer = 2
  /\ registry = NoReg
  /\ pollIntervalMs = POLL_INTERVAL_MS
  /\ isSyncing = FALSE /\ backoffMs = 0 /\ nextPollTimeout = TRUE
  /\ lastApiError = NoError
  /\ currentUpdates = [i \in 1 .. Len(DirOrder) |->
                         parseContentVars(DirOrder[i], InitBody(DirOrder[i]))]
  /\ reactionTotals = aggregateReactions(currentUpdates)
  /\ myReactions = InitBody(Me).rx
  /\ teamRegistry = NoReg /\ teamLocked = FALSE
  /\ cacheFiles = [w \in Writers |-> [etag |-> 1, text |-> InitBody(w)]]
  /\ pollPending = TRUE /\ pollWait = PollDelay(POLL_INTERVAL_MS, 0)
  /\ liveStatus = "Updated"
  /\ passEntered = ""
  /\ cyc = [s \in Slots |-> NoCycle]
  /\ reentered = FALSE
  /\ lastOutcome = [out |-> "Updated", thr |-> FALSE]
  /\ throttleRun = 0
  /\ booted = TRUE
  /\ wr = [c \in Clients |-> IdleOp]
  /\ putLog = <<>>
  /\ disturbed = FALSE
  /\ NoRx
  /\ NoAgg
  /\ NoSave
  /\ NoSpeaker
  /\ NoCodec

NextRx ==
  \/ \E f \in ToggleFlags : Toggle(f)
  \/ \E t \in 1 .. MaxToggles : RxTimerFire(t)
  \/ \E c \in Clients, r \in MetaAnswers : RxOnEnsureMeta(c, r)
  \/ \E c \in Clients, r \in MetaAnswers : RxOnWfMeta(c, r)
  \/ \E c \in Clients, r \in {OK} \cup Conflicts \cup Faults : RxOnWfPut(c, r)
  \/ \E c \in Clients, r \in MetaAnswers : RxOnRead(c, r)
  \/ ResyncFire
  \/ RxSyncStep

SpecRx == InitRx /\ [][NextRx]_vars

\* ------------------------------------------------------ the update form of one tab
\* In this part entry 1 of wr is the save the one tab has in flight (the form is submitted
\* again only after the save before it has settled); the other client writes B's record.
SaveFrame == UNCHANGED <<registry, pollIntervalMs, backoffMs, pollVars, pubVars,
                         teamRegistry, teamLocked, cacheFiles, passEntered, lastOutcome,
                         throttleRun, booted, rxVars, aggVars, speakerVars,
                         codecVars>>

\* what the other client saves into its record
OtherBody == [upd |-> 2, hasRx |-> FALSE, rx |-> {}]
\* the answers a request of a save may get
SaveAnswers == {OK} \cup Conflicts \cup Errors

\* #updateForm submit: saveMyUpdate up to `await writeFileOverwriteStrict(...)`
SaveSubmit ==
  /\ booted
  /\ saveMyUpdate(1)
  /\ liveStatus' = "Saving"
  /\ saveStatus' = "Saving"
  /\ UNCHANGED <<isSyncing, lastApiError, cyc, reentered>>
  /\ SaveFrame

\* a save whose catch block also asks for the re-sync
saveSettledRefreshOnError(c) ==
  IF wr'[c].pc # "done"
  THEN /\ UNCHANGED <<lastApiError, saveStatus, liveStatus, isSyncing, cyc, reentered>>
  ELSE /\ saveStatus' = IF wr'[c].result = "ok" THEN "Saved!" ELSE "Save failed"
       /\ lastApiError' = IF wr'[c].result = "ok" THEN lastApiError ELSE wr'[c].err
       /\ refreshBoard("save")

\* the rest of saveMyUpdate once writeFileOverwriteStrict has settled:
\* `setSaveStatus('Saved!'); setLiveStatus({label:'Synced'}); await refreshBoard();` or
\* `catch (e) { recordApiError(e); setSaveStatus('Save failed...'); setLiveStatus({label:'Error'}) }`
saveSettled(c) ==
  IF wr'[c].pc # "done"
  THEN UNCHANGED <<lastApiError, saveStatus, liveStatus, isSyncing, cyc, reentered>>
  ELSE IF wr'[c].result = "ok"
  THEN /\ saveStatus' = "Saved!"
       /\ IF CanStartSync
          THEN refreshBoard("save")
          ELSE /\ liveStatus' = "Synced"
               /\ reentered' = TRUE
               /\ UNCHANGED <<cyc, isSyncing>>
       /\ UNCHANGED lastApiError
  ELSE /\ saveStatus' = "Save failed"
       /\ lastApiError' = wr'[c].err
       /\ liveStatus' = "Error"
       /\ UNCHANGED <<cyc, isSyncing, reentered>>

\* the answer that moves writeFileOverwriteStrict of a save leaves it as o; what
\* `await refreshBoard()` did is noted in the save's record
SaveStep(c, o) ==
  /\ wr' = [wr EXCEPT ![c] =
              IF o.pc = "done" /\ o.result = "ok"
              THEN [o EXCEPT !.refresh = IF CanStartSync THEN "started" ELSE "skipped"]
              ELSE o]
  /\ saveSettled(c)

SaveOnWfMeta(c, r) ==
  /\ wr[c].pc = "wf" /\ wr[c].wf.pc \in {"meta1", "meta2"}
  /\ SaveStep(c, WfMetaOp(c, r))
  /\ disturbed' = (disturbed \/ Fault(r))
  /\ UNCHANGED <<store, nextVer, putLog>>
  /\ SaveFrame

SaveOnWfPut(c, r) ==
  /\ wr[c].pc = "wf" /\ wr[c].wf.pc \in {"put1", "put2"}
  /\ r \in PutAnswers(wr[c].wf.sha, store[Me].ver)
  /\ SaveStep(c, WfPutOp(c, r))
  /\ StorePut(c, r)
  /\ disturbed' = (disturbed \/ Fault(r))
  /\ SaveFrame

\* the other client's save lands in the store
OtherSave == StoreChange("B", OtherBody)

\* a request of a sync cycle is answered (the team has no registry entry)
SaveSyncStep ==
  \E s \in Slots, r \in MetaAnswers :
    \/ OnListDirectory(s, r)
    \/ OnListRegistry(s, r)
    \/ OnReadFileContent(s, r)
    \/ OnPopulate(s, r)

InitSave == InitRx

NextSave ==
  \/ SaveSubmit
  \/ \E c \in Clients, r \in SaveAnswers : SaveOnWfMeta(c, r)
  \/ \E c \in Clients, r \in SaveAnswers : SaveOnWfPut(c, r)
  \/ OtherSave
  \/ PollFire
  \/ SaveSyncStep

SpecSave == InitSave /\ [][NextSave]_vars

\* fairness the event loop gives: a due poll timer fires, a request is answered
SpecSaveLive == SpecSave /\ WF_vars(PollFire) /\ WF_vars(SaveSyncStep)

\* ------------------------------------------------------------ the aggregator
\* the flags the records handed to the aggregator may hold
AggFlags == {<<"B", "thumb">>, <<"B", "heart">>}
AggRecords == [name : Writers, upd : {0}, rx : SUBSET AggFlags]
AggLists == UNION {[1 .. n -> AggRecords] : n \in 0 .. MaxLen}
AggFrame == UNCHANGED <<storeVars, clientVars, writeVars, rxVars, saveVars, speakerVars, codecVars>>

\* aggregateReactions is called on the list
Aggregate ==
  /\ aggTotals' = aggregateReactions(aggList)
  /\ aggSeen' = aggSeen \cup {aggregateReactions(aggList)}
  /\ UNCHANGED aggList
  /\ AggFrame

\* the records arrive in another order: neighbours i and i + 1 change places
Reorder(i) ==
  /\ i < Len(aggList)
  /\ aggList' = [aggList EXCEPT ![i] = aggList[i + 1], ![i + 1] = aggList[i]]
  /\ UNCHANGED <<aggTotals, aggSeen>>
  /\ AggFrame

InitAgg ==
  /\ store = [w \in Writers |-> [ver |-> 1, body |-> InitBody(w)]]
  /\ nextVer = 2
  /\ registry = NoReg
  /\ pollIntervalMs = POLL_INTERVAL_MS
  /\ FreshTab
  /\ wr = [c \in Clients |-> IdleOp]
  /\ putLog = <<>>
  /\ disturbed = FALSE
  /\ NoRx
  /\ NoSave
  /\ NoSpeaker
  /\ NoCodec
  /\ aggList \in AggLists
  /\ aggTotals = ZeroTotals
  /\ aggSeen = {}

NextAgg ==
  \/ Aggregate
  \/ \E i \in 1 .. MaxLen : Reorder(i)

SpecAgg == InitAgg /\ [][NextAgg]_vars

\* ------------------------------------------------------------ the speaker queue
SpeakerNames == {"A", "B", "C"}
\* the card of a writer on the board
Card(n) == [name |-> n, upd |-> 1, rx |-> {}]
\* no name stands twice in the list
Distinct(names) == \A i, j \in 1 .. Len(names) : names[i] = names[j] => i = j
\* the boards the facilitator may see: up to MaxBoard records of the writers, in any
\* order; with #sessionFilter empty refreshBoard fetches the team's files of every
\* session, so a writer who saved in two sessions stands on the board twice
MaxBoard == 3
Rosters == UNION {[1 .. n -> SpeakerNames] : n \in 0 .. MaxBoard}
Range(q) == {q[i] : i \in 1 .. Len(q)}
\* updates.map(u => u.name)
Names(updates) == [i \in 1 .. Len(updates) |-> updates[i].name]
\* the orders shuffle(arr) may return
shuffle(arr) == {[i \in 1 .. Len(arr) |-> arr[p[i]]] : p \in Permutations(1 .. Len(arr))}
SpeakerFrame == UNCHANGED <<storeVars, clientVars, writeVars, rxVars, aggVars, saveVars,
                             codecVars>>

\* names.map(n => byName.get(n)).filter(Boolean): the last card of each name that has one
CardsOf(names, updates) ==
  LET has == SeqFilter(names, Range(Names(updates)))
  IN [i \in 1 .. Len(has) |->
        updates[CHOOSE k \in 1 .. Len(updates) :
                  /\ updates[k].name = has[i]
                  /\ \A m \in 1 .. Len(updates) : updates[m].name = has[i] => m <= k]]

\* an ordering that lists the writers new to the board before the saved order
applySpeakerOrderingNewFirst(s, updates) ==
  LET ready == SeqFilter(Names(updates), Range(Names(updates)) \ Range(s.spoken))
      savedOrder == SeqFilter(s.readyOrder, Range(ready))
      leftover == SeqFilter(ready, Range(ready) \ Range(savedOrder))
      finalReadyNames == leftover \o savedOrder
      speaking == IF s.speakingNow # NoOne /\ s.speakingNow \in Range(ready)
                  THEN s.speakingNow ELSE NoOne
      head == IF speaking # NoOne THEN <<speaking>> ELSE <<>>
      rest == SeqFilter(finalReadyNames, Range(finalReadyNames) \ {speaking})
  IN CardsOf(head \o rest, updates) \o CardsOf(s.spoken, updates)

applySpeakerOrdering(s, updates) ==
  LET ready == SeqFilter(Names(updates), Range(Names(updates)) \ Range(s.spoken))
      savedOrder == SeqFilter(s.readyOrder, Range(ready))
      leftover == SeqFilter(ready, Range(ready) \ Range(savedOrder))
      finalReadyNames == savedOrder \o leftover
      speaking == IF s.speakingNow # NoOne /\ s.speakingNow \in Range(ready)
                  THEN s.speakingNow ELSE NoOne
      head == IF speaking # NoOne THEN <<speaking>> ELSE <<>>
      rest == SeqFilter(finalReadyNames, Range(finalReadyNames) \ {speaking})
  IN CardsOf(head \o rest, updates) \o CardsOf(s.spoken, updates)

\* renderUpdates with the filters of the board left at 'all'
renderUpdates(s, updates) ==
  IF s.speakingNow # NoOne \/ s.spoken # <<>> \/ s.readyOrder # <<>>
  THEN applySpeakerOrdering(s, updates)
  ELSE updates

\* a handler that leaves the speaker state alone when nobody is left to speak
nextSpeakerKeepsExhausted ==
  /\ speakerCalls' = Append(speakerCalls, "nextSpeaker")
  /\ IF currentUpdates = <<>> THEN UNCHANGED speaker
     ELSE LET ready == SeqFilter(Names(currentUpdates), SpeakerNames \ Range(speaker.spoken))
          IN IF ready = <<>>
             THEN UNCHANGED speaker
             ELSE \E order \in shuffle(ready) :
                    speaker' = [speaker EXCEPT !.readyOrder = order, !.speakingNow = order[1]]
  /\ grid' = IF currentUpdates = <<>> THEN grid ELSE renderUpdates(speaker', currentUpdates)
  /\ SpeakerFrame

\* a handler that draws from every name of the board, spoken or not
nextSpeakerAnyName ==
  /\ speakerCalls' = Append(speakerCalls, "nextSpeaker")
  /\ IF currentUpdates = <<>> THEN UNCHANGED speaker
     ELSE \E order \in shuffle(Names(currentUpdates)) :
            speaker' = [speaker EXCEPT !.readyOrder = order, !.speakingNow = order[1]]
  /\ grid' = IF currentUpdates = <<>> THEN grid ELSE renderUpdates(speaker', currentUpdates)
  /\ SpeakerFrame

\* #nextSpeakerBtn click
nextSpeaker ==
  /\ speakerCalls' = Append(speakerCalls, "nextSpeaker")
  /\ IF currentUpdates = <<>> THEN UNCHANGED speaker
     ELSE LET ready == SeqFilter(Names(currentUpdates), SpeakerNames \ Range(speaker.spoken))
          IN IF ready = <<>>
             THEN speaker' = [speaker EXCEPT !.speakingNow = NoOne, !.readyOrder = <<>>]
             ELSE \E order \in shuffle(ready) :
                    speaker' = [speaker EXCEPT !.readyOrder = order, !.speakingNow = order[1]]
  /\ grid' = IF currentUpdates = <<>> THEN grid ELSE renderUpdates(speaker', currentUpdates)
  /\ SpeakerFrame

\* a handler without the `if (!s.speakingNow) return` line
speakerFinishedUnguarded ==
  /\ speakerCalls' = Append(speakerCalls, "speakerFinished")
  /\ speaker' = [spoken |-> IF speaker.speakingNow \in Range(speaker.spoken)
                            THEN speaker.spoken
                            ELSE Append(speaker.spoken, speaker.speakingNow),
                 speakingNow |-> NoOne,
                 readyOrder |-> SeqFilter(speaker.readyOrder,
                                          Range(speaker.readyOrder) \ {speaker.speakingNow})]
  /\ grid' = renderUpdates(speaker', currentUpdates)
  /\ SpeakerFrame

\* #speakerFinishedBtn click
speakerFinished ==
  /\ speakerCalls' = Append(speakerCalls, "speakerFinished")
  /\ IF speaker.speakingNow = NoOne THEN UNCHANGED speaker
     ELSE speaker' = [spoken |-> IF speaker.speakingNow \in Range(speaker.spoken)
                                 THEN speaker.spoken
                                 ELSE Append(speaker.spoken, speaker.speakingNow),
                      speakingNow |-> NoOne,
                      readyOrder |-> SeqFilter(speaker.readyOrder,
                                       Range(speaker.readyOrder) \ {speaker.speakingNow})]
  /\ grid' = IF speaker.speakingNow = NoOne THEN grid
             ELSE renderUpdates(speaker', currentUpdates)
  /\ SpeakerFrame

\* a sync cycle publishes another roster: state.currentUpdates = parsed
Republish(r) ==
  /\ currentUpdates' = [i \in 1 .. Len(r) |-> Card(r[i])]
  /\ grid' = renderUpdates(speaker, currentUpdates')
  /\ UNCHANGED <<storeVars, pollIntervalMs, isSyncing, backoffMs, nextPollTimeout,
                 lastApiError, reactionTotals, myReactions, teamRegistry, teamLocked,
                 cacheFiles, pollPending, pollWait, liveStatus, passEntered, cyc, reentered,
                 lastOutcome, throttleRun, booted>>
  /\ UNCHANGED <<writeVars, rxVars, aggVars, saveVars, speaker, speakerCalls, codecVars>>

\* #teamSwitcher change: clearSpeakerState()
clearSpeakerState ==
  /\ speaker' = [spoken |-> <<>>, speakingNow |-> NoOne, readyOrder |-> <<>>]
  /\ UNCHANGED <<speakerCalls, grid>>
  /\ SpeakerFrame

\* the tab with a board published and nothing stored for the session's speaker order
InitSpeaker ==
  /\ store = [w \in Writers |-> [ver |-> 1, body |-> InitBody(w)]]
  /\ nextVer = 2
  /\ registry = NoReg
  /\ pollIntervalMs = POLL_INTERVAL_MS
  /\ isSyncing = FALSE /\ backoffMs = 0 /\ nextPollTimeout = TRUE
  /\ lastApiError = NoError
  /\ \E r \in Rosters : currentUpdates = [i \in 1 .. Len(r) |-> Card(r[i])]
  /\ reactionTotals = ZeroTotals /\ myReactions = {}
  /\ teamRegistry = NoReg /\ teamLocked = FALSE
  /\ cacheFiles = [w \in Writers |-> EmptyCache]
  /\ pollPending = TRUE /\ pollWait = PollDelay(POLL_INTERVAL_MS, 0)
  /\ liveStatus = "Updated"
  /\ passEntered = ""
  /\ cyc = [s \in Slots |-> NoCycle]
  /\ reentered = FALSE
  /\ lastOutcome = [out |-> "Updated", thr |-> FALSE]
  /\ throttleRun = 0
  /\ booted = TRUE
  /\ wr = [c \in Clients |-> IdleOp]
  /\ putLog = <<>>
  /\ disturbed = FALSE
  /\ NoRx
  /\ NoAgg
  /\ NoSave
  /\ speaker = [spoken |-> <<>>, speakingNow |-> NoOne, readyOrder |-> <<>>]
  /\ speakerCalls = <<>>
  /\ grid = currentUpdates
  /\ NoCodec

NextSpeaker ==
  \/ (Len(speakerCalls) < MaxCalls /\ nextSpeaker)
  \/ (Len(speakerCalls) < MaxCalls /\ speakerFinished)
  \/ \E r \in Rosters : Republish(r)
  \/ clearSpeakerState

SpecSpeaker == InitSpeaker /\ [][NextSpeaker]_vars

\* the facilitator runs rounds on a board that stays as it is: nextSpeaker, then
\* speakerFinished, MaxRounds times
MaxRounds == 3
NextTurns ==
  \/ (Len(speakerCalls) < 2 * MaxRounds /\ Len(speakerCalls) % 2 = 0 /\ nextSpeaker)
  \/ (Len(speakerCalls) % 2 = 1 /\ speakerFinished)

SpecTurns == InitSpeaker /\ [][NextTurns]_vars

\* ------------------------------------------------------------ the record codec
\* A text is a sequence of characters; a line of a body is KEY=value, the value being a
\* numeral (n) or a character sequence (s).
Quote == "\""
Chars == {Quote, "a", " "}
Texts == UNION {[1 .. n -> Chars] : n \in 0 .. MaxText}
NotNum == 0 - 1
NaN == 0 - 2
Str(t) == [n |-> NotNum, s |-> t]
Num(k) == [n |-> k, s |-> <<>>]
\* `"${x}"`
Wrap(t) == <<Quote>> \o t \o <<Quote>>
\* btoa(...) of the text, character by character
B64Code(ch) == IF ch = Quote THEN "Ig" ELSE IF ch = "a" THEN "YQ" ELSE "IA"
toBase64(t) == [i \in 1 .. Len(t) |-> B64Code(t[i])]
B64Char(code) == IF code = "Ig" THEN Quote ELSE IF code = "YQ" THEN "a" ELSE " "
\* atob(...) in try/catch: "" when the text is not base64
fromBase64(t) ==
  IF \A i \in 1 .. Len(t) : t[i] \in {"Ig", "YQ", "IA"}
  THEN [i \in 1 .. Len(t) |-> B64Char(t[i])]
  ELSE <<>>
RECURSIVE TrimLeft(_)
TrimLeft(t) == IF t # <<>> /\ Head(t) = " " THEN TrimLeft(Tail(t)) ELSE t
RECURSIVE TrimRight(_)
TrimRight(t) ==
  IF t # <<>> /\ t[Len(t)] = " " THEN TrimRight(SubSeq(t, 1, Len(t) - 1)) ELSE t
Trim(t) == TrimRight(TrimLeft(t))
\* `if (val.startsWith('"') && val.endsWith('"')) val = val.slice(1, -1)`
Unquote(t) ==
  IF t # <<>> /\ t[1] = Quote /\ t[Len(t)] = Quote THEN SubSeq(t, 2, Len(t) - 1) ELSE t
\* the value of a line as parseContentVars holds it: trimmed, quotes stripped
ValText(v) == Unquote(Trim(v.s))
\* Number(val)
Number(v) == IF v.n # NotNum THEN v.n ELSE IF ValText(v) = <<>> THEN 0 ELSE NaN
\* Number(val) || null
NumberOrNull(v) == IF Number(v) = NaN \/ Number(v) = 0 THEN Unset ELSE Number(v)

Line(k, v) == [key |-> k, val |-> v]
buildContentVars(r) ==
  << Line("TEAM", Str(Wrap(r.team))),
     Line("NAME", Str(Wrap(r.name))),
     Line("SESSION", Str(Wrap(r.session))),
     Line("FEELING", Num(r.feeling)),
     Line("PRODUCTIVITY", Num(r.productivity)),
     Line("UPDATED_AT", Str(Wrap(r.timestamp))),
     Line("UPDATE_B64", Str(Wrap(toBase64(r.update)))) >>

\* one turn of the `for (const raw of lines)` loop of parseContentVars
ParseLine(out, l) ==
  IF l.key = "TEAM" THEN [out EXCEPT !.team = ValText(l.val)]
  ELSE IF l.key = "NAME" THEN [out EXCEPT !.name = ValText(l.val)]
  ELSE IF l.key = "SESSION" THEN [out EXCEPT !.session = ValText(l.val)]
  ELSE IF l.key = "FEELING" THEN [out EXCEPT !.feeling = NumberOrNull(l.val)]
  ELSE IF l.key = "PRODUCTIVITY" THEN [out EXCEPT !.productivity = NumberOrNull(l.val)]
  ELSE IF l.key = "UPDATED_AT" THEN [out EXCEPT !.updated_at = ValText(l.val)]
  ELSE IF l.key = "UPDATE_B64" THEN [out EXCEPT !.update = fromBase64(ValText(l.val))]
  ELSE out
RECURSIVE ParseInto(_, _)
ParseInto(out, lines) ==
  IF lines = <<>> THEN out ELSE ParseInto(ParseLine(out, Head(lines)), Tail(lines))
\* parseContentVars on the lines of a body
parseContentVarsLines(lines) == ParseInto(EmptyOut, lines)

\* the payloads of saveMyUpdate and ensureMyFileExists: ratings 0..10
Ratings == 0 .. MaxRating
Payloads == [team : {<<"a">>}, name : Texts, session : {<<"a">>}, feeling : Ratings,
             productivity : Ratings, update : {<<>>, <<Quote, " ">>},
             timestamp : {<<"a", "a">>}]
CodecFrame == UNCHANGED <<storeVars, clientVars, writeVars, rxVars, aggVars, saveVars,
                          speakerVars>>

\* buildContentVars is called on the payload
Encode ==
  /\ codecText = <<>> /\ codecOut = NoOut
  /\ codecText' = buildContentVars(codecIn)
  /\ UNCHANGED <<codecIn, codecOut, codecEdits>>
  /\ CodecFrame

\* the stored body is edited by hand: line i is deleted
RemoveLine(i) ==
  /\ codecOut = NoOut /\ codecEdits < MaxEdits /\ i <= Len(codecText)
  /\ codecText' = SubSeq(codecText, 1, i - 1) \o SubSeq(codecText, i + 1, Len(codecText))
  /\ codecEdits' = codecEdits + 1
  /\ UNCHANGED <<codecIn, codecOut>>
  /\ CodecFrame

\* the stored body is edited by hand: the value of line i is overwritten with a word
Garble(i) ==
  /\ codecOut = NoOut /\ codecEdits < MaxEdits /\ i <= Len(codecText)
  /\ codecText' = [codecText EXCEPT ![i] = Line(@.key, Str(<<"a">>))]
  /\ codecEdits' = codecEdits + 1
  /\ UNCHANGED <<codecIn, codecOut>>
  /\ CodecFrame

\* parseContentVars is called on the body
Decode ==
  /\ codecText # <<>> /\ codecOut = NoOut
  /\ codecOut' = parseContentVarsLines(codecText)
  /\ UNCHANGED <<codecIn, codecText, codecEdits>>
  /\ CodecFrame

InitCodec ==
  /\ store = [w \in Writers |-> [ver |-> 1, body |-> InitBody(w)]]
  /\ nextVer = 2
  /\ registry = NoReg
  /\ pollIntervalMs = POLL_INTERVAL_MS
  /\ FreshTab
  /\ wr = [c \in Clients |-> IdleOp]
  /\ putLog = <<>>
  /\ disturbed = FALSE
  /\ NoRx
  /\ NoAgg
  /\ NoSave
  /\ NoSpeaker
  /\ codecIn \in Payloads
  /\ codecText = <<>> /\ codecOut = NoOut /\ codecEdits = 0

NextCodec ==
  \/ Encode
  \/ \E i \in 1 .. 7 : RemoveLine(i)
  \/ \E i \in 1 .. 7 : Garble(i)
  \/ Decode

SpecCodec == InitCodec /\ [][NextCodec]_vars

\* fairness the event loop gives: init() runs, a due timer fires, a request is answered
SpecLive == Spec /\ WF_vars(Boot) /\ WF_vars(PollFire) /\ WF_vars(SyncStep)

\* ------------------------------------------------------------------ claims
CyclesInFlight == {s \in Slots : cyc[s].pc # "none"}
IsRefreshCall ==
  \/ Boot
  \/ PollFire
  \/ ManualRefresh
  \/ \E v \in PassInputs : PassInput(v) /\ verifyPassForSelectedTeam(teamRegistry, v)
CycleEnds == \E s \in Slots : cyc[s].pc # "none" /\ cyc'[s].pc = "none"
CycleStarts == \E s \in Slots : cyc[s].pc = "none" /\ cyc'[s].pc # "none"

\* C1: at most one sync cycle is in flight at any time, isSyncing is true exactly while
\* one is, and a refreshBoard call made while isSyncing is true (poll timer, manual
\* refresh, passphrase input, init) starts no cycle, issues no request and changes none of
\* currentUpdates, reactionTotals, backoffMs or the pending poll timer.
C1_SingleCycle ==
  /\ [](Cardinality(CyclesInFlight) <= 1 /\ (isSyncing <=> CyclesInFlight # {}))
  /\ [][(isSyncing /\ IsRefreshCall) =>
          /\ UNCHANGED <<cyc, isSyncing, currentUpdates, reactionTotals, backoffMs,
                         nextPollTimeout, pollWait>>
          /\ (pollPending' => pollPending)]_vars
C1_Witness == reentered /\ isSyncing /\ currentUpdates # <<>> /\ pollPending

\* C2: every cycle that ends leaves isSyncing false and a poll timer pending, whatever its
\* outcome; once init() has run, a cycle is in flight or a poll timer is pending; and with
\* timers firing and requests answered, cycles start again and again.
C2_AlwaysRescheduled ==
  /\ [](booted => (isSyncing \/ pollPending))
  /\ [][CycleEnds => (~isSyncing' /\ pollPending' /\ nextPollTimeout')]_vars
  /\ []<><<CycleStarts>>_vars
C2_Witness ==
  ~isSyncing /\ pollPending /\ lastOutcome.out = "Locked" /\ lastApiError.status = 500

C4_AnyThrottleBacksOff ==
  [][\A s \in Slots :
       (cyc[s].pc # "none" /\ cyc'[s].pc = "none" /\ lastOutcome'.thr) =>
          /\ backoffMs' = (IF cyc[s].b0 = 0 THEN 5000 ELSE Min(2 * cyc[s].b0, 60000))
          /\ liveStatus' # "Updated"]_vars

\* every writeFileOverwriteStrict call the clients hold (running or returned)
WfCalls == {wr[c].wf : c \in Clients} \ {NoWf}

\* C5 (as claimed): a writeFileOverwriteStrict call issues at most two PUTs and at most
\* two version fetches; after a 409 or 422 on its first PUT it re-fetches the version
\* once and, the re-fetch answered, retries the PUT once with the version it saw; a failed
\* retry ends the call with that error thrown.
C5_OneRetry ==
  \A wf \in WfCalls :
    /\ wf.puts <= 2 /\ wf.fetches <= 2
    /\ wf.first \in Conflicts => wf.fetches = 2
    /\ (wf.first \in Conflicts /\ wf.seen2 # NotFetched) => (wf.puts = 2 /\ wf.sha = wf.seen2)
    /\ (wf.pc = "done" /\ wf.err # NoError) => wf.res = "err"

\* both clients' calls have returned, each having found the path absent at its first fetch
BothCreated == \A c \in Clients : wr[c].sawAbsent /\ wr[c].wf.pc = "done"
PutsBy(c) == SeqFilter(putLog, {putLog[i] : i \in {j \in 1..Len(putLog) : putLog[j].by = c}})

\* C6: when two clients run writeFileOverwriteStrict on a path both found absent, and the
\* store answers every request, one succeeds on its first PUT, the other gets a conflict
\* on its first PUT and succeeds on its one retry carrying the version the winner created;
\* both return success, the path holds one object (the later write), and each body was
\* stored exactly once.
C6_ConcurrentCreate ==
  (BothCreated /\ ~disturbed) =>
    \E w \in Clients : \E l \in Clients \ {w} :
      /\ wr[w].wf.res = "ok" /\ wr[w].wf.puts = 1
      /\ wr[l].wf.res = "ok" /\ wr[l].wf.puts = 2 /\ wr[l].wf.first \in Conflicts
      /\ Len(PutsBy(w)) = 1 /\ Len(PutsBy(l)) = 1 /\ Len(putLog) = 2
      /\ PutsBy(w)[1].replaced = 0 /\ PutsBy(w)[1].try = 1
      /\ PutsBy(l)[1].replaced = PutsBy(w)[1].new /\ PutsBy(l)[1].try = 2
      /\ wr[l].wf.sha = PutsBy(w)[1].new
      /\ store[Me] = [ver |-> PutsBy(l)[1].new, body |-> wr[l].wf.body]
C6_Witness ==
  /\ BothCreated /\ ~disturbed
  /\ wr[1].op = "save" /\ wr[2].op = "save"
  /\ wr[2].wf.puts = 2 /\ wr[2].wf.first = Conflict422

\* C7 (as claimed): a reaction PUT the store accepts replaces the revision whose content
\* upsertMyReactions read to build the new body.
C7_CasReadBase ==
  \A i \in 1..Len(putLog) : putLog[i].kind = "rx" => putLog[i].replaced = putLog[i].base

\* C8 (as claimed): in every reachable state at most one debounced reaction write is
\* pending, whatever the order of toggles, timer firings and completions of earlier
\* reaction writes.
C8_OnePendingWrite == Cardinality(rxArmed) <= 1

\* a callback's upsertMyReactions call settles in this step
RxSettles(c) == wr[c].op = "rx" /\ wr[c].pc \notin {"idle", "done"} /\ wr'[c].pc = "done"

\* C9: a re-sync is requested exactly in the steps in which an upsertMyReactions call
\* settles, one per call, whether the write succeeded or failed; the click that schedules
\* the write requests none; a failed write records its error and still requests it.
C9_ResyncAfterSettle ==
  [][/\ resync' > resync => (resync' = resync + 1 /\ \E c \in Clients : RxSettles(c))
     /\ \A c \in Clients : RxSettles(c) =>
          /\ resync' = resync + 1
          /\ wr'[c].result \in {"ok", "failed"}
          /\ wr'[c].result = "failed" => (lastApiError' = wr'[c].err /\ wr'[c].err # NoError)
     /\ rxIssued' # rxIssued => resync' = resync]_vars
C9_Witness ==
  /\ resync = 2
  /\ \E c \in Clients : wr[c].pc = "done" /\ wr[c].result = "failed"
  /\ \E c \in Clients : wr[c].pc = "done" /\ wr[c].result = "ok"
  /\ lastApiError # NoError

\* C10: for every list of parsed records and every (target, emoji), the total
\* aggregateReactions reports is the number of records of the list holding that flag, and
\* every order of the list gives the same totals.
C10_FromScratchCount ==
  aggSeen # {} =>
    /\ \A f \in Flags :
         aggTotals[f] = Cardinality({i \in 1 .. Len(aggList) : f \in aggList[i].rx})
    /\ Cardinality(aggSeen) = 1
C10_Witness ==
  /\ aggSeen # {} /\ Len(aggList) = 3
  /\ aggTotals[<<"B", "thumb">>] = 3 /\ aggTotals[<<"B", "heart">>] = 1
  /\ aggList[1].rx = {<<"B", "thumb">>} /\ aggList[3].rx = AggFlags

\* the body the store held for writer w at revision v
RevisionBody(w, v) ==
  IF w # Me \/ v = 1 THEN InitBody(w)
  ELSE putLog[CHOOSE i \in 1 .. Len(putLog) : putLog[i].new = v].body
\* a record read of a sync cycle is answered with content in this step
SyncReadAnswered(s, w) ==
  /\ cyc[s].pc = "readFileContent" /\ Head(cyc[s].queue) = w
  /\ Len(cyc'[s].parsed) = Len(cyc[s].parsed) + 1
\* the content read of a reaction write is answered with content in this step
RxReadAnswered(c) == wr[c].pc = "read" /\ wr'[c].pc = "wf" /\ wr'[c].base # NotFetched

\* C11: a cache entry always pairs the version tag of a revision with the body of that
\* revision; a read answered 'unchanged' returns the cached text and leaves the entry as it
\* was; a read answered with a new version returns that content and replaces tag and
\* text of the entry together.
C11_CachePaired ==
  /\ [](\A w \in Writers : cacheFiles[w].etag # 0 =>
                              cacheFiles[w].text = RevisionBody(w, cacheFiles[w].etag))
  /\ [][\A w \in Writers :
          /\ \A s \in Slots : SyncReadAnswered(s, w) =>
               /\ cyc'[s].parsed[Len(cyc'[s].parsed)] = parseContentVars(w, store[w].body)
               /\ cacheFiles'[w] = (IF cacheFiles[w].etag = store[w].ver THEN cacheFiles[w]
                                    ELSE [etag |-> store[w].ver, text |-> store[w].body])
          /\ \A c \in Clients : (w = Me /\ RxReadAnswered(c)) =>
               /\ wr'[c].text = store[w].body
               /\ cacheFiles'[w] = (IF cacheFiles[w].etag = store[w].ver THEN cacheFiles[w]
                                    ELSE [etag |-> store[w].ver, text |-> store[w].body])]_vars
C11_Witness ==
  /\ store[Me].ver = 2 /\ cacheFiles[Me].etag = 2
  /\ cacheFiles[Me].text # InitBody(Me)
  /\ \E i \in 1 .. Len(currentUpdates) :
       currentUpdates[i] = parseContentVars(Me, store[Me].body)
  /\ \E c \in Clients : wr[c].pc = "wf" /\ wr[c].base = 2 /\ wr[c].text = cacheFiles[Me].text

\* a PUT of this tab is accepted by the store in this step
PutAccepted == Len(putLog') = Len(putLog) + 1

\* C12 (as claimed): once a PUT of this client on its record has been accepted, the cache
\* entry of the record no longer holds the version tag (and body) of the revision the PUT
\* replaced.
C12_WriteRefreshesCache ==
  [][PutAccepted => cacheFiles'[Me].etag # store[Me].ver]_vars

\* the passphrase gate of the cycle in slot s fails in this step
GateFails(s) == cyc[s].out # "Locked" /\ cyc'[s].out = "Locked"

\* C13: a cycle whose passphrase gate fails has requested no record file before the gate
\* and requests none after it, leaves currentUpdates empty and reactionTotals empty, ends
\* in the 'Locked' status and ends with the next poll scheduled.
C13_LockedCycle ==
  /\ [](\A s \in Slots : cyc[s].out = "Locked" =>
          /\ cyc[s].pc = "populate" /\ cyc[s].queue = <<>> /\ cyc[s].parsed = <<>>
          /\ currentUpdates = <<>> /\ reactionTotals = ZeroTotals
          /\ liveStatus = "Locked")
  /\ [][\A s \in Slots :
          /\ GateFails(s) => (cyc[s].pc \in {"listRegistry", "readJsonFile"}
                               /\ cyc[s].parsed = <<>> /\ cacheFiles' = cacheFiles)
          /\ (cyc[s].out = "Locked" /\ cyc'[s].pc = "none") =>
               /\ cacheFiles' = cacheFiles
               /\ currentUpdates' = <<>> /\ reactionTotals' = ZeroTotals
               /\ liveStatus' = "Locked" /\ lastOutcome'.out = "Locked"
               /\ ~isSyncing' /\ pollPending' /\ nextPollTimeout']_vars
C13_Witness ==
  /\ lastOutcome.out = "Locked" /\ ~isSyncing /\ pollPending
  /\ currentUpdates = <<>> /\ teamLocked
  /\ cacheFiles[Me].etag # 0

\* the store holds a registry entry with a passphrase and the client does not hold it
PassphraseMissing == registry \notin {NoReg, ""} /\ passEntered # registry

\* C14 (as claimed): while the team's registry entry in the store carries a passphrase the
\* client has not entered, no cycle gets past its gate: none goes on to request a record
\* file or to publish a roster, whatever the answers to the registry listing and to the
\* registry entry read.
C14_GateFailsClosed ==
  [][\A s \in Slots :
       (PassphraseMissing /\ cyc[s].pc \in {"listRegistry", "readJsonFile"}) =>
          (cyc'[s].pc # "readFileContent" /\ cyc'[s].out # "Updated")]_vars

\* every record of the session is on the board with the content the store holds
Fresh ==
  \A w \in Writers :
    \E i \in 1 .. Len(currentUpdates) :
      currentUpdates[i] = parseContentVars(w, store[w].body)

\* a request of a sync cycle is answered with an error
CycleFails ==
  \E s \in Slots, r \in Errors :
    \/ OnListDirectory(s, r)
    \/ OnListRegistry(s, r)
    \/ OnReadFileContent(s, r)
    \/ OnPopulate(s, r)

SaveFails(c) ==
  /\ wr[c].op = "save" /\ wr[c].pc = "wf"
  /\ wr'[c].pc = "done" /\ wr'[c].result = "failed"

\* C20: when writeFileOverwriteStrict throws inside saveMyUpdate, whatever the error
\* (403 and 429 included), the save status reports the failure, and backoffMs, isSyncing,
\* currentUpdates, reactionTotals and the pending poll timer stay as they were; no
\* refreshBoard call is made: no cycle starts and none is found in flight.
C20_FailedSaveApart ==
  [][\A c \in Clients : SaveFails(c) =>
        /\ saveStatus' = "Save failed"
        /\ UNCHANGED <<backoffMs, isSyncing, currentUpdates, reactionTotals, pollVars>>
        /\ UNCHANGED <<cyc, reentered>>]_vars
C20_Witness ==
  /\ saveStatus = "Save failed"
  /\ \E c \in Clients : wr[c].op = "save" /\ wr[c].result = "failed" /\ wr[c].err.status = 429
  /\ lastApiError.status = 429
  /\ ~isSyncing /\ pollPending /\ backoffMs = 0

\* the click on the speaker button h
IsCall(h) == speakerCalls' = Append(speakerCalls, h)
\* the board shows each of the three writers once
FullRoster == Len(currentUpdates) = 3 /\ Range(Names(currentUpdates)) = SpeakerNames

\* C16: on a board of the three writers with nobody spoken, nextSpeaker makes one of them
\* the speaker and readyOrder an order of all three with the speaker first;
\* speakerFinished puts the speaker into spoken, where the name then stands exactly once,
\* and clears speakingNow; speakerFinished right after speakerFinished changes nothing.
C16_SpeakerQueue ==
  [][/\ (IsCall("nextSpeaker") /\ FullRoster /\ speaker.spoken = <<>>) =>
          /\ speaker'.speakingNow \in SpeakerNames
          /\ Len(speaker'.readyOrder) = 3 /\ Range(speaker'.readyOrder) = SpeakerNames
          /\ speaker'.readyOrder[1] = speaker'.speakingNow
          /\ speaker'.spoken = <<>>
     /\ (IsCall("speakerFinished") /\ speaker.speakingNow # NoOne) =>
          /\ Cardinality({i \in 1 .. Len(speaker'.spoken) :
                            speaker'.spoken[i] = speaker.speakingNow}) = 1
          /\ speaker'.spoken = Append(speaker.spoken, speaker.speakingNow)
          /\ speaker'.speakingNow = NoOne
     /\ (IsCall("speakerFinished") /\ speakerCalls # <<>>
           /\ speakerCalls[Len(speakerCalls)] = "speakerFinished") =>
          speaker' = speaker]_vars
C16_Witness ==
  /\ FullRoster
  /\ speakerCalls = <<"nextSpeaker", "speakerFinished", "speakerFinished">>
  /\ Len(speaker.spoken) = 1 /\ speaker.speakingNow = NoOne
  /\ Len(speaker.readyOrder) = 2 /\ speaker.spoken[1] \notin Range(speaker.readyOrder)

\* the store accepts the PUT of a reaction write (upsertMyReactions, not the file creation
\* of ensureMyFileExists)
RxPutAccepted == PutAccepted /\ putLog'[Len(putLog')].kind = "rx"

\* C17 (as claimed): the revision a reaction write stores holds the same form fields as the
\* revision it replaces, also when the content read before the write failed, and no
\* record of another writer changes.
C17_ReactionWriteFrame ==
  [][RxPutAccepted =>
       /\ store'[Me].body.upd = store[Me].body.upd
       /\ \A w \in Writers \ {Me} : store'[w] = store[w]]_vars

\* C18 (as claimed): a payload with ratings in 0..10, encoded by buildContentVars and
\* decoded by parseContentVars from the untouched body, comes back with the same team,
\* name, session, feeling, productivity, update text and timestamp.
C18_RoundTrip ==
  (codecOut # NoOut /\ codecEdits = 0) =>
    /\ codecOut.team = codecIn.team
    /\ codecOut.name = codecIn.name
    /\ codecOut.session = codecIn.session
    /\ codecOut.feeling = codecIn.feeling
    /\ codecOut.productivity = codecIn.productivity
    /\ codecOut.update = codecIn.update
    /\ codecOut.updated_at = codecIn.timestamp

\* the numeral the last line of the body with key k holds, Unset when no line with that
\* key holds a numeral
Stored(k) ==
  LET at == {i \in 1 .. Len(codecText) : codecText[i].key = k}
      last == CHOOSE i \in at : \A j \in at : j <= i
  IN IF at = {} \/ codecText[last].val.n = NotNum THEN Unset ELSE codecText[last].val.n

\* C19 (as claimed): parseContentVars returns for every body; feeling and productivity
\* are the rating the body holds, 0 included, and the unset value when the body holds no
\* FEELING / PRODUCTIVITY line or a value that is no number.
C19_UnsetApartFromZero ==
  codecOut # NoOut =>
    /\ ~codecOut.threw
    /\ codecOut.feeling = Stored("FEELING")
    /\ codecOut.productivity = Stored("PRODUCTIVITY")

\* the step of the cycle in slot s in which discoverTeamsFromGitHub returns and the gate
\* is evaluated
GateStep(s) ==
  /\ cyc[s].pc \in {"listRegistry", "readJsonFile"}
  /\ cyc'[s].pc \notin {"listRegistry", "readJsonFile"}

\* C21: in a sync cycle the directory listing is answered before the registry is
\* discovered; the gate is evaluated on the registry map the discovery has just stored;
\* the first record request follows a gate that passed; and the roster is published only
\* when every record of the listing has been read, with the totals aggregated from it.
C21_CycleOrder ==
  [][/\ \A s \in Slots :
          /\ (cyc[s].pc = "listDirectory" /\ cyc'[s] # cyc[s]) =>
               /\ cyc'[s].pc = "listRegistry"
               /\ UNCHANGED <<teamRegistry, teamLocked, pubVars, cacheFiles>>
          /\ GateStep(s) =>
               /\ teamLocked' = ~verifyPassForSelectedTeam(teamRegistry', passEntered)
               /\ cyc'[s].pc = "readFileContent" =>
                    (~teamLocked' /\ cyc'[s].parsed = <<>> /\ cyc'[s].queue = cyc'[s].list)
          /\ (cyc'[s].pc = "readFileContent" /\ cyc[s].pc # "readFileContent") => GateStep(s)
     /\ teamRegistry' # teamRegistry => \E s \in Slots : GateStep(s)
     /\ (currentUpdates' # currentUpdates \/ reactionTotals' # reactionTotals) =>
          \E s \in Slots :
            \/ GateStep(s) /\ cyc'[s].out = "Locked"
            \/ /\ cyc'[s].pc = "populate" /\ cyc'[s].out = "Updated"
               /\ cyc'[s].queue = <<>>
               /\ Len(cyc'[s].parsed) = Len(cyc'[s].list)
               /\ currentUpdates' = cyc'[s].parsed
               /\ reactionTotals' = aggregateReactions(cyc'[s].parsed)]_vars
C21_Witness ==
  /\ lastOutcome.out = "Updated" /\ ~isSyncing
  /\ Len(currentUpdates) = Len(DirOrder)
  /\ teamRegistry = "pw" /\ passEntered = "pw" /\ ~teamLocked

\* the speaker state is reset: clearSpeakerState
IsClear ==
  /\ speaker' = [spoken |-> <<>>, speakingNow |-> NoOne, readyOrder |-> <<>>]
  /\ speakerCalls' = speakerCalls

\* C22 (as claimed): a writer stops being speakingNow only by speakerFinished, which
\* puts the writer into spoken, or by the reset of the speaker state; nextSpeaker called
\* while somebody is speaking leaves speakingNow as it is.
C22_SpeakerKept ==
  [][(speaker.speakingNow # NoOne /\ speaker'.speakingNow # speaker.speakingNow) =>
        \/ IsCall("speakerFinished") /\ speaker.speakingNow \in Range(speaker'.spoken)
        \/ IsClear]_vars

\* every writer on the board has spoken
Exhausted ==
  /\ currentUpdates # <<>>
  /\ Range(Names(currentUpdates)) \subseteq Range(speaker.spoken)

\* C23: nextSpeaker on a board whose writers have all spoken sets speakingNow to null and
\* readyOrder to the empty list and leaves spoken as it is; on an empty board it changes
\* nothing.
C23_ExhaustedQueue ==
  [][IsCall("nextSpeaker") =>
        /\ Exhausted => /\ speaker'.speakingNow = NoOne
                        /\ speaker'.readyOrder = <<>>
                        /\ speaker'.spoken = speaker.spoken
        /\ currentUpdates = <<>> => speaker' = speaker]_vars
C23_Witness ==
  /\ Exhausted
  /\ speakerCalls = <<"nextSpeaker", "speakerFinished", "nextSpeaker">>
  /\ Len(currentUpdates) = 1 /\ Len(speaker.spoken) = 1
  /\ speaker.speakingNow = NoOne /\ speaker.readyOrder = <<>>

\* renderUpdates draws the board in this step
RenderStep ==
  \/ IsCall("nextSpeaker") /\ currentUpdates # <<>>
  \/ IsCall("speakerFinished") /\ speaker.speakingNow # NoOne
  \/ currentUpdates' # currentUpdates

\* the names of the board in the order the claim gives, for speaker state s and the names
\* of the roster
SequencedNames(s, names) ==
  LET unspoken == Range(names) \ Range(s.spoken)
      first == IF s.speakingNow \in unspoken THEN <<s.speakingNow>> ELSE <<>>
      saved == SeqFilter(s.readyOrder, unspoken \ Range(first))
      new == SeqFilter(names, (unspoken \ Range(s.readyOrder)) \ Range(first))
      spoken == SeqFilter(s.spoken, Range(names))
  IN first \o saved \o new \o spoken

\* C24: whenever a board of distinct writer names is drawn for a speaker state whose
\* saved order names no writer twice, its cards are the cards of the roster, each once,
\* in this order: the current speaker (if on the board and not spoken), the saved
\* readyOrder restricted to unspoken writers on the board, the unspoken writers the saved
\* order lacks in roster order, the spoken writers in spoken order; a roster change
\* leaves the saved speaker state as it is.
C24_StableResequencing ==
  [][/\ (RenderStep /\ Distinct(Names(currentUpdates')) /\ Distinct(speaker'.readyOrder)) =>
          /\ Names(grid') = SequencedNames(speaker', Names(currentUpdates'))
          /\ Range(grid') = Range(currentUpdates')
          /\ Len(grid') = Len(currentUpdates')
     /\ currentUpdates' # currentUpdates => speaker' = speaker]_vars
C24_Witness ==
  /\ Len(currentUpdates) = 3 /\ Len(grid) = 3
  /\ Len(speaker.spoken) = 1 /\ speaker.speakingNow # NoOne
  /\ Len(speaker.readyOrder) = 1
  /\ grid[1].name = speaker.speakingNow
  /\ grid[2].name \notin Range(speaker.readyOrder) \cup Range(speaker.spoken)
  /\ grid[3].name = speaker.spoken[1]
  /\ Names(grid) # Names(currentUpdates)

\* C25 (as claimed): only version conflicts are retried by writeFileOverwriteStrict: a
\* first PUT that failed with an error other than a 409 or 422 conflict is followed by no
\* second version fetch and no second PUT, and that error is thrown; and a first version
\* fetch that found the path absent is no error, the first PUT carrying no sha.
C25_OnlyConflictsRetried ==
  \A c \in Clients :
    LET wf == wr[c].wf
    IN /\ (wf # NoWf /\ wf.first # NoError /\ wf.first \notin Conflicts) =>
            (wf.fetches = 1 /\ wf.puts = 1 /\ wf.pc = "done" /\ wf.res = "err" /\ wf.err = wf.first)
       /\ (wr[c].sawAbsent /\ wf.pc = "put1") => (wf.sha = 0 /\ wf.puts = 1 /\ wf.err = NoError)

\* the part of C25 the code keeps: an error whose message names neither 422 nor sha and
\* whose status is not 409 ends the call at once, and an absent path is created
C25_PlainErrorsThrown ==
  \A c \in Clients :
    LET wf == wr[c].wf
    IN /\ (wf # NoWf /\ wf.first \in Faults) =>
            (wf.fetches = 1 /\ wf.puts = 1 /\ wf.pc = "done" /\ wf.res = "err" /\ wf.err = wf.first)
       /\ (wr[c].sawAbsent /\ wf.pc = "put1") => (wf.sha = 0 /\ wf.puts = 1 /\ wf.err = NoError)
\* the final PUT of the reaction write in entry c of wr is accepted by the store
RxLanded(c) ==
  /\ Len(putLog') = Len(putLog) + 1
  /\ putLog'[Len(putLog')].by = c /\ putLog'[Len(putLog')].kind = "rx"
\* click t is the user's last word on its flag
LastOfFlag(t) == \A u \in t + 1 .. Len(clicks) : clicks[u].flag # clicks[t].flag

\* C26 (as claimed): a reaction toggle is never lost: when the debounced write that
\* follows a click succeeds, the record the store then holds has the clicked flag at the
\* value the click gave it, whatever ran between the click and the write (a sync cycle
\* that reloads myReactions included).
C26_ToggleNeverLost ==
  [][\A c \in Clients : RxLanded(c) =>
       \A t \in 1 .. Len(clicks) :
         (clicks[t].write = c /\ LastOfFlag(t)) =>
           ((clicks[t].flag \in store'[Me].body.rx) <=> clicks[t].on)]_vars

\* the toggles the code does keep: a click whose write starts before any sync cycle has
\* published in between finds its flag stored
C26_KeptWithoutPublish ==
  [][\A c \in Clients : RxLanded(c) =>
       \A t \in 1 .. Len(clicks) :
         (clicks[t].write = c /\ Len(clicks) = 1 /\ Len(putLog) = 0) =>
           ((clicks[t].flag \in store'[Me].body.rx) <=> clicks[t].on)]_vars
\* the PUT of a saveMyUpdate call is accepted by the store
SaveLanded ==
  /\ Len(putLog') = Len(putLog) + 1
  /\ putLog'[Len(putLog')].kind = "save"

\* C27 (as claimed): a status save leaves the writer's reactions intact: when the PUT of
\* saveMyUpdate lands on a record whose body carried a ReactionState, the new body carries
\* the same flags, so the record adds the same to every reaction total as before.
C27_SaveKeepsReactions ==
  [][(SaveLanded /\ store[Me].body.hasRx) =>
       /\ store'[Me].body.hasRx
       /\ parseContentVars(Me, store'[Me].body).rx = parseContentVars(Me, store[Me].body).rx
       /\ aggregateReactions(<<parseContentVars(Me, store'[Me].body)>>)
            = aggregateReactions(<<parseContentVars(Me, store[Me].body)>>)]_vars
\* the reaction writes of the tab that have started and not yet returned
RxInFlight == {c \in Clients : wr[c].op = "rx" /\ wr[c].pc \notin {"idle", "done"}}

\* C28 (as claimed): at most one execution of upsertMyReactions is in flight per client:
\* no debounced write starts while an earlier one is still awaiting the store, so two
\* reaction PUTs of one client never overlap.
C28_OneWriteInFlight ==
  /\ Cardinality(RxInFlight) <= 1
  /\ ~(\A c \in Clients : wr[c].op = "rx" /\ wr[c].pc = "wf" /\ wr[c].wf.pc \in {"put1", "put2"})
\* the stages of a cycle before anything of it is published
Unpublished == {"listDirectory", "listRegistry", "readJsonFile", "readFileContent"}
\* the cycle of slot s ends in the catch block while it was fetching the records
FetchFails(s) == cyc[s].pc = "readFileContent" /\ cyc'[s].pc = "none"
\* a record fetch of the cycle of slot s is answered with the record
Fetched(s) ==
  /\ cyc[s].pc = "readFileContent"
  /\ cyc'[s].pc \in {"readFileContent", "populate"}
  /\ Len(cyc'[s].parsed) = Len(cyc[s].parsed) + 1

\* C29: a sync cycle that fails while fetching a record publishes nothing. No step up to
\* and including the failing answer changes currentUpdates, reactionTotals or
\* myReactions, so they are what they were when the cycle began, the records parsed so
\* far are not put on the board, and the cycle ends in "Sync error"; each record fetched
\* before the failure has refreshed its cache entry, and the failure leaves the cache as
\* those fetches made it.
C29_FailedFetchPublishesNothing ==
  [][\A s \in Slots :
       /\ cyc'[s].pc \in Unpublished => UNCHANGED pubVars
       /\ FetchFails(s) =>
            /\ UNCHANGED <<pubVars, cacheFiles>>
            /\ liveStatus' = "Sync error" /\ lastOutcome'.out \in {"Sync error", "Throttled"}
       /\ Fetched(s) =>
            LET w == Head(cyc[s].queue)
            IN /\ cacheFiles'[w] = [etag |-> store[w].ver, text |-> store[w].body]
               /\ \A v \in Writers \ {w} : cacheFiles'[v] = cacheFiles[v]
       /\ (cyc[s].pc \in Unpublished /\ ~Fetched(s)) => UNCHANGED cacheFiles]_vars

\* the first cycle failed at the second record: the first record's cache entry is
\* refreshed, the second's is not, and the board is as empty as before the cycle
C29_Witness ==
  /\ lastOutcome.out = "Sync error" /\ liveStatus = "Sync error"
  /\ \A s \in Slots : cyc[s].pc = "none"
  /\ cacheFiles[DirListing[1]] = [etag |-> store[DirListing[1]].ver,
                                  text |-> store[DirListing[1]].body]
  /\ cacheFiles[DirListing[2]] = EmptyCache
  /\ currentUpdates = <<>> /\ reactionTotals = ZeroTotals /\ myReactions = {}
\* the directory request of the cycle of slot s was answered with an error (the team
\* directory holds records, and the cycle has none)
ListingFailed(s) ==
  /\ cyc[s].pc \in {"listRegistry", "readJsonFile"}
  /\ cyc[s].list = <<>> /\ DirListing # <<>>

\* C30 (as claimed): a sync cycle whose directory listing failed does not publish an empty
\* roster as a successful refresh: past the gate it neither replaces a non-empty
\* currentUpdates by the empty list nor sets the "Updated" status.
C30_ListingFailureNotPublished ==
  [][\A s \in Slots :
       (ListingFailed(s) /\ cyc'[s].pc \notin {"listRegistry", "readJsonFile"} /\ ~teamLocked') =>
         /\ liveStatus' # "Updated"
         /\ currentUpdates # <<>> => currentUpdates' # <<>>]_vars
\* the values doubling from the floor to the ceiling can give
BackoffValues == {0, 5000, 10000, 20000, 40000, 60000}
\* the cycle of slot s settles as successful or locked (what follows is its trailing
\* listing and the finally block)
SettlesClean(s) ==
  /\ cyc[s].pc \notin {"none", "populate"} /\ cyc'[s].pc = "populate"
  /\ cyc'[s].out \in {"Updated", "Locked"}
\* the cycle of slot s ends in the catch block on a rate-limit error
EndsThrottled(s) ==
  /\ cyc[s].pc # "none" /\ cyc'[s].pc = "none"
  /\ lastOutcome'.out = "Throttled"

\* backoffMs is one of the six values, and a scheduled poll waits at least 2000 ms and at
\* most max(2000, poll interval) + 60000 ms
BackoffInRange ==
  /\ backoffMs \in BackoffValues
  /\ pollPending => (pollWait >= 2000 /\ pollWait <= Max(2000, pollIntervalMs) + 60000)
\* backoffMs changes only where a sync cycle settles: to 0 when the cycle is successful
\* or locked, upward when it ends throttled
BackoffSteps ==
  backoffMs' # backoffMs =>
    \E s \in Slots : \/ (SettlesClean(s) /\ backoffMs' = 0)
                      \/ (EndsThrottled(s) /\ backoffMs' > backoffMs)

EndsInError(s) ==
  /\ cyc[s].pc # "none" /\ cyc'[s].pc = "none"
  /\ lastOutcome'.out = "Sync error"

\* C32: a sync cycle that fails with an error that is not rate limiting leaves backoffMs
\* as it was when the cycle began, neither reset nor raised, and the next poll is
\* scheduled with that backoff.
C32_PlainErrorKeepsBackoff ==
  [][\A s \in Slots :
       EndsInError(s) =>
         /\ ~IsRateLimited(lastApiError')
         /\ backoffMs' = backoffMs /\ backoffMs' = cyc[s].b0
         /\ pollPending' /\ pollWait' = Max(2000, pollIntervalMs) + cyc[s].b0]_vars

\* a cycle failed on a server error after two throttled ones: the backoff of 10000 stands
C32_Witness ==
  /\ lastOutcome.out = "Sync error" /\ lastApiError.status = 500 /\ ~isSyncing
  /\ backoffMs = 10000 /\ pollPending /\ pollWait = Max(2000, pollIntervalMs) + 10000
\* C33 (as claimed): after every sequence of nextSpeaker, speakerFinished and clearSpeakerState from
\* the reset state, the roster changing in between or not: spoken holds no writer twice,
\* speakingNow is not in spoken, readyOrder holds no writer twice and no member of
\* spoken, and a speakingNow that is not null is the first element of readyOrder.
C33_SpeakerInvariants ==
  /\ Distinct(speaker.spoken)
  /\ speaker.speakingNow \notin Range(speaker.spoken)
  /\ Distinct(speaker.readyOrder)
  /\ Range(speaker.readyOrder) \cap Range(speaker.spoken) = {}
  /\ speaker.speakingNow # NoOne =>
       (speaker.readyOrder # <<>> /\ speaker.readyOrder[1] = speaker.speakingNow)

\* the parts of C33 the code keeps on every board, a writer standing twice or not
C33_KeptOnAnyBoard ==
  /\ Distinct(speaker.spoken)
  /\ speaker.speakingNow \notin Range(speaker.spoken)
  /\ Range(speaker.readyOrder) \cap Range(speaker.spoken) = {}
  /\ speaker.speakingNow # NoOne =>
       (speaker.readyOrder # <<>> /\ speaker.readyOrder[1] = speaker.speakingNow)

\* the rounds completed so far, and whether a round is under way
RoundsDone == Len(speakerCalls) \div 2
MidRound == Len(speakerCalls) % 2 = 1

\* C34: on a fixed board of N distinct writers, from the reset state, each of the first N
\* rounds of nextSpeaker then speakerFinished selects a writer of the board not selected
\* before, and after round N spoken is a permutation of the board: nobody is selected
\* twice and nobody is skipped.
C34_OneTurnEach ==
  Distinct(Names(currentUpdates)) =>
    LET n == Len(currentUpdates)
        board == Range(Names(currentUpdates))
    IN /\ (MidRound /\ RoundsDone < n) =>
            /\ speaker.speakingNow \in board \ Range(speaker.spoken)
            /\ Len(speaker.spoken) = RoundsDone
       /\ (~MidRound /\ RoundsDone <= n) =>
            /\ speaker.speakingNow = NoOne
            /\ Len(speaker.spoken) = RoundsDone
            /\ Distinct(speaker.spoken) /\ Range(speaker.spoken) \subseteq board
       /\ (~MidRound /\ RoundsDone = n) =>
            (Range(speaker.spoken) = board /\ Len(speaker.spoken) = n)

\* three rounds on a board of three: all three have spoken, in another order than the
\* board lists them
C34_Witness ==
  /\ Len(currentUpdates) = 3 /\ Distinct(Names(currentUpdates))
  /\ Len(speakerCalls) = 6 /\ Len(speaker.spoken) = 3
  /\ Range(speaker.spoken) = Range(Names(currentUpdates))
  /\ speaker.spoken # Names(currentUpdates)
====
